---------------------------- MODULE Spec2Model ----------------------------
(***************************************************************************)
(* A model of chemag/rdtest: the two batch harnesses rdtest.py (video) and *)
(* rdimage.py (image), with the helpers of utils.py they call.             *)
(*                                                                         *)
(* Strings are TLA+ strings, handled character by character (SubSeq, \o),  *)
(* so that formatting, escaping and path handling are computed as Python   *)
(* computes them.  External tools (ffmpeg, ffprobe, the codecs) are opaque:*)
(* their exit codes and the properties of the files they write are chosen  *)
(* nondeterministically.                                                   *)
(***************************************************************************)
EXTENDS Integers, Sequences, FiniteSets, TLC

VARIABLES
    prog,                 \* which script runs: "rdtest" or "rdimage"
    options,              \* the parsed command line (argparse Namespace)
    pc,                   \* position of the interpreter in run_experiment
    procs,                \* external processes spawned so far, in order
    disk,                 \* path -> properties of each file that exists
    loc,                  \* local variables of run_experiment
    results,              \* rows produced so far (rdimage: the list `results`)
    csv,                  \* result files on disk: path -> lines written
    status,               \* exit status of the script: "none", "zero", "nonzero"
    parameter_name_list,  \* rdimage.py:124 (rdtest: the loop variables)
    parameter_val_list,   \* rdimage.py:127 (rdtest: the loop nest, unrolled)
    artifacts,            \* names given to the configurations of one build
    run2                  \* a second run of the builder on the same inputs

vars == <<prog, options, pc, procs, disk, loc, results, csv, status,
          parameter_name_list, parameter_val_list, artifacts, run2>>

---------------------------------------------------------------------------
(* Python string and path primitives                                       *)

\* s[i] for 1 <= i <= Len(s)
CharAt(s, i) == SubSeq(s, i, i)

\* ch in s
Contains(s, ch) == \E i \in 1..Len(s) : CharAt(s, i) = ch

\* 1-based s.rfind(ch), 0 when absent
RFind(s, ch) ==
    LET I == {i \in 1..Len(s) : CharAt(s, i) = ch}
    IN  IF I = {} THEN 0 ELSE CHOOSE i \in I : \A j \in I : j <= i

\* str.replace(old, new) for a one-character old
RECURSIVE str_replace(_, _, _)
str_replace(s, old, new) ==
    IF s = "" THEN ""
    ELSE (IF CharAt(s, 1) = old THEN new ELSE CharAt(s, 1))
         \o str_replace(Tail(s), old, new)

\* os.path.basename
basename(p) == SubSeq(p, RFind(p, "/") + 1, Len(p))

\* os.path.splitext: <<root, ext>>; leading dots of the basename are no extension
splitext(p) ==
    LET sep == RFind(p, "/")
        dot == RFind(p, ".")
    IN  IF dot > sep /\ \E i \in (sep + 1)..(dot - 1) : CharAt(p, i) # "."
        THEN <<SubSeq(p, 1, dot - 1), SubSeq(p, dot, Len(p))>>
        ELSE <<p, "">>

\* os.path.join(a, b)
path_join(a, b) ==
    IF b # "" /\ CharAt(b, 1) = "/" THEN b
    ELSE IF a = "" \/ CharAt(a, Len(a)) = "/" THEN a \o b
    ELSE a \o "/" \o b

\* Sequence helpers
RECURSIVE Product(_)
Product(lens) == IF lens = <<>> THEN 1 ELSE Head(lens) * Product(Tail(lens))

SeqRange(s) == {s[i] : i \in DOMAIN s}

RECURSIVE Concat(_)
Concat(ss) == IF ss = <<>> THEN <<>> ELSE Head(ss) \o Concat(Tail(ss))

---------------------------------------------------------------------------
(* rdimage.py: the codec registry                                          *)

None == "<None>"

rdimage_CODEC_KEYS ==
    <<"jpeg/libjpeg-turbo", "jxl/libjxl", "heic/x265", "avif/libaom", "avif/svt">>

rdimage_CODEC_INFO ==
    [c \in SeqRange(rdimage_CODEC_KEYS) |->
        CASE c = "jpeg/libjpeg-turbo" ->
                [parameters |-> <<"jpeg_quality">>,
                 input_format |-> ".ppm", output_format |-> ".jpeg",
                 decode_command |-> None]
          [] c = "jxl/libjxl" ->
                [parameters |-> <<"jxl_quality">>,
                 input_format |-> ".ppm", output_format |-> ".jxl",
                 decode_command |-> "djxl {infile} {outfile}"]
          [] c = "heic/x265" ->
                [parameters |-> <<"heic_quality", "heic_preset">>,
                 input_format |-> ".y4m", output_format |-> ".heic",
                 decode_command |-> "heif-convert {infile} {outfile}"]
          [] c = "avif/libaom" ->
                [parameters |-> <<"avif_speed">>,
                 input_format |-> ".y4m", output_format |-> ".avif",
                 decode_command |-> None]
          [] c = "avif/svt" ->
                [parameters |-> <<"avif_speed">>,
                 input_format |-> ".y4m", output_format |-> ".avif",
                 decode_command |-> None]]

HEIC_PRESET_LIST ==
    <<"ultrafast", "superfast", "veryfast", "faster", "fast", "medium",
      "slow", "slower", "veryslow", "placebo">>

---------------------------------------------------------------------------
(* rdimage.py: flatten and the configuration builder                       *)

\* A Python value that is either a scalar or a list of such values.
Atom(v) == [isl |-> FALSE, a |-> v, l |-> <<>>]
List(s) == [isl |-> TRUE, a |-> "", l |-> s]

\* flatten(the_list): the_list is a sequence of Python values
RECURSIVE flatten(_)
flatten(the_list) ==
    IF Len(the_list) = 0 THEN the_list
    ELSE IF Head(the_list).isl
         THEN flatten(Head(the_list).l) \o flatten(Tail(the_list))
         ELSE <<Head(the_list)>> \o flatten(Tail(the_list))

\* the names in flatten([v["parameters"] for v in CODEC_INFO.values()])
rdimage_declared_names ==
    LET nested == [i \in DOMAIN rdimage_CODEC_KEYS |->
                     List([j \in DOMAIN rdimage_CODEC_INFO[rdimage_CODEC_KEYS[i]].parameters |->
                             Atom(rdimage_CODEC_INFO[rdimage_CODEC_KEYS[i]].parameters[j])])]
        flat == flatten(nested)
    IN  [i \in DOMAIN flat |-> flat[i].a]

\* list(set(...)): a set of str iterates in an order fixed by the hashes of its
\* elements, which CPython randomizes per process: each run may see any order.
set_orders(names) ==
    LET S == SeqRange(names)
    IN  {o \in [1..Cardinality(S) -> S] : \A i, j \in DOMAIN o : i # j => o[i] # o[j]}

\* value_list with the test on the codec's declaration dropped
value_list_undeclared_too(opts, codec, parameter) == opts[parameter]

\* rdimage.py:134-140
value_list(opts, codec, parameter) ==
    IF parameter \in SeqRange(rdimage_CODEC_INFO[codec].parameters)
    THEN opts[parameter]
    ELSE <<"">>

\* rdimage.py:141-143: [x, y] for x in tmp for y in value_list
pairs(tmp, vl) ==
    [n \in 1..(Len(tmp) * Len(vl)) |->
        List(<<tmp[((n - 1) \div Len(vl)) + 1], Atom(vl[((n - 1) % Len(vl)) + 1])>>)]

\* rdimage.py:133-143: the loop over parameter_name_list[1:]
RECURSIVE develop(_, _, _, _)
develop(opts, codec, names, tmp) ==
    IF names = <<>> THEN tmp
    ELSE develop(opts, codec, Tail(names), pairs(tmp, value_list(opts, codec, Head(names))))

\* rdimage.py:128-146: the configurations of one codec
codec_parameter_vals(opts, codec, names) ==
    LET tmp == develop(opts, codec, Tail(names), <<Atom(codec)>>)
    IN  [n \in DOMAIN tmp |->
            LET f == flatten(tmp[n].l) IN [i \in DOMAIN f |-> f[i].a]]

\* rdimage.py:127-146
rdimage_parameter_val_list(opts, names) ==
    Concat([i \in DOMAIN opts.codecs |-> codec_parameter_vals(opts, opts.codecs[i], names)])

---------------------------------------------------------------------------
(* rdimage.py: the names of the artifacts                                  *)

\* rdimage.py:173-179
RECURSIVE rdimage_postfix_raw(_, _)
rdimage_postfix_raw(names, vals) ==
    IF names = <<>> \/ vals = <<>> THEN ""
    ELSE (IF Head(vals) # "" THEN "." \o Head(names) \o "_" \o Head(vals) ELSE "")
         \o rdimage_postfix_raw(Tail(names), Tail(vals))

escape_postfix(postfix) == str_replace(postfix, "/", "_")

rdimage_postfix(names, vals) == escape_postfix(rdimage_postfix_raw(names, vals))

\* rdimage.py:156-164: the file handed to the encoder
rdimage_infile(tmp_dir, orig_infile, codec) ==
    LET input_format == rdimage_CODEC_INFO[codec].input_format
    IN  IF input_format = splitext(basename(orig_infile))[2]
        THEN orig_infile
        ELSE path_join(tmp_dir, splitext(basename(orig_infile))[1] \o input_format)

\* rdimage.py:180-184
rdimage_outfile(tmp_dir, infile, names, vals) ==
    path_join(tmp_dir,
              splitext(basename(infile))[1] \o rdimage_postfix(names, vals)
                  \o rdimage_CODEC_INFO[vals[1]].output_format)

\* a decoded name for every codec, whether it declares a decode command or not
rdimage_distorted_infile_decoded(outfile, codec) ==
    outfile \o rdimage_CODEC_INFO[codec].input_format

\* rdimage.py:206-210
rdimage_distorted_infile(outfile, codec) ==
    IF rdimage_CODEC_INFO[codec].decode_command = None
    THEN outfile
    ELSE outfile \o rdimage_CODEC_INFO[codec].input_format

---------------------------------------------------------------------------
(* rdtest.py: the codec registry, the sweep and the names of the artifacts *)

rdtest_CODEC_KEYS ==
    <<"lcevc-x264", "x264", "openh264", "x265", "vp8", "vp9", "libaom-av1">>

rdtest_CODEC_INFO ==
    [c \in SeqRange(rdtest_CODEC_KEYS) |->
        CASE c = "lcevc-x264" -> [codecname |-> "pplusenc_x264", extension |-> ".mp4",
                                  parameters |-> <<>>]
          [] c = "x264"       -> [codecname |-> "libx264", extension |-> ".mp4",
                                  parameters |-> <<>>]
          [] c = "openh264"   -> [codecname |-> "libopenh264", extension |-> ".mp4",
                                  parameters |-> <<>>]
          [] c = "x265"       -> [codecname |-> "libx265", extension |-> ".mp4",
                                  parameters |-> <<>>]
          [] c = "vp8"        -> [codecname |-> "vp8", extension |-> ".webm",
                                  parameters |-> <<<<"quality", "realtime">>>>]
          [] c = "vp9"        -> [codecname |-> "libvpx-vp9", extension |-> ".webm",
                                  parameters |-> <<<<"quality", "realtime">>,
                                                   <<"qmin", "2">>, <<"qmax", "56">>>>]
          [] c = "libaom-av1" -> [codecname |-> "libaom-av1", extension |-> ".mp4",
                                  parameters |-> <<<<"cpu-used", "5">>>>]]

RESOLUTIONS == <<"1280x720", "864x480", "640x360", "432x240", "216x120">>

BITRATES == <<"2500", "1000", "560", "280", "140", "70", "35">>

RCMODES == <<"cbr">>

\* rdtest.py:296-298: the loop nest under one codec, in iteration order
rdtest_inner_sweep(opts) ==
    LET R == Len(opts.resolutions)
        B == Len(opts.bitrates)
        M == Len(opts.rcmodes)
    IN  [n \in 1..(R * B * M) |->
            <<opts.resolutions[((n - 1) \div (B * M)) + 1],
              opts.bitrates[(((n - 1) \div M) % B) + 1],
              opts.rcmodes[((n - 1) % M) + 1]>>]

\* rdtest.py:286-298: for codec / for resolution / for bitrate / for rcmode
rdtest_sweep(opts) ==
    Concat([i \in DOMAIN opts.codecs |->
              [n \in DOMAIN rdtest_inner_sweep(opts) |->
                  <<opts.codecs[i]>> \o rdtest_inner_sweep(opts)[n]]])

\* rdtest.py:263-266
rdtest_ref_filename(tmp_dir, in_filename, in_resolution) ==
    path_join(tmp_dir, basename(in_filename) \o ".ref_" \o in_resolution \o ".y4m")

\* rdtest.py:535-542
gen_basename(ref_filename, ref_resolution, codec, resolution, bitrate, rcmode) ==
    basename(ref_filename) \o ".ref_" \o ref_resolution
        \o ".codec_" \o codec
        \o ".resolution_" \o resolution
        \o ".bitrate_" \o bitrate
        \o ".rcmode_" \o rcmode

\* rdtest.py:545-546
enc_basename(ref_filename, ref_resolution, cfg) ==
    gen_basename(ref_filename, ref_resolution, cfg[1], cfg[2], cfg[3], cfg[4])
        \o rdtest_CODEC_INFO[cfg[1]].extension

\* rdtest.py:551
dec_basename(ref_filename, ref_resolution, cfg) ==
    enc_basename(ref_filename, ref_resolution, cfg) \o ".y4m"

\* rdtest.py:558-560
decs_basename(ref_filename, ref_resolution, cfg) ==
    dec_basename(ref_filename, ref_resolution, cfg)
        \o ".scaled" \o ".resolution_" \o ref_resolution \o ".y4m"

\* rdtest.py:546, 552, 561: the three artifacts of one configuration
rdtest_artifacts(tmp_dir, ref_filename, ref_resolution, cfg) ==
    [enc  |-> path_join(tmp_dir, enc_basename(ref_filename, ref_resolution, cfg)),
     dec  |-> path_join(tmp_dir, dec_basename(ref_filename, ref_resolution, cfg)),
     decs |-> path_join(tmp_dir, decs_basename(ref_filename, ref_resolution, cfg))]

\* rdimage.py:156-184, 206-210: the artifacts of one configuration of one input.
\* rdimage.py has no rescaling step: the measured file is the decoded one.
rdimage_artifacts(tmp_dir, orig_infile, names, vals) ==
    LET infile  == rdimage_infile(tmp_dir, orig_infile, vals[1])
        outfile == rdimage_outfile(tmp_dir, infile, names, vals)
    IN  [enc  |-> outfile,
         dec  |-> rdimage_distorted_infile(outfile, vals[1]),
         decs |-> rdimage_distorted_infile(outfile, vals[1])]

---------------------------------------------------------------------------
(* The builder and the namer on their own: bounded inputs                  *)

MaxVals == 2

\* the non-empty lists of at most n values over S (argparse nargs='+')
Lists(S, n) == UNION {[1..k -> S] : k \in 1..n}

\* the value lists of rdimage's axes when nothing is given (one value each)
rdimage_base_options ==
    [codecs |-> <<"jpeg/libjpeg-turbo">>, tmp_dir |-> "/tmp/", cleanup |-> TRUE,
     jpeg_quality |-> <<"0">>, jxl_quality |-> <<"10">>, heic_quality |-> <<"0">>,
     heic_preset |-> <<"fast">>, avif_speed |-> <<"0">>]

\* Command lines of rdimage.py that get_options accepts (rdimage.py:376-410):
\* any codec of the registry, any preset of HEIC_PRESET_LIST, any token for
\* the other axes.
rdimage_build_options ==
    {[rdimage_base_options EXCEPT !.jpeg_quality = q] :
        q \in Lists({"0", "1/2", "1_2"}, MaxVals)}
    \cup
    {[rdimage_base_options EXCEPT !.codecs = c, !.heic_quality = q, !.heic_preset = p] :
        c \in {<<"heic/x265">>, <<"jpeg/libjpeg-turbo", "heic/x265">>,
               <<"avif/svt", "jxl/libjxl">>},
        q \in {<<"0">>, <<"0", "20">>},
        p \in {<<"fast">>, <<"fast", "faster">>}}

\* Command lines of rdtest.py that get_options accepts (rdtest.py:674-696):
\* any codec of the registry, any resolution holding an 'x', any numeric
\* bitrate, any rcmode of RCMODES.
rdtest_build_options ==
    {[codecs |-> c, resolutions |-> r, bitrates |-> b, rcmodes |-> RCMODES,
      tmp_dir |-> "/tmp/", cleanup |-> TRUE] :
        c \in {<<"x264">>, <<"x264", "vp8">>},
        r \in Lists({"640x360", "1x1", "1x1.bitrate_5", "../x"}, MaxVals),
        b \in Lists({"560", "5"}, MaxVals)}

build_orig_infile == "/in/a.png"
build_ref_resolution == "640x360"
build_ref_filename == rdtest_ref_filename("/tmp/", "/in/clip.mp4", build_ref_resolution)

NoLoc == [none |-> TRUE]

BuildInitOver(image_options, video_options) ==
    /\ prog \in {"rdtest", "rdimage"}
    /\ options \in (IF prog = "rdimage" THEN image_options ELSE video_options)
    /\ pc = "build"
    /\ procs = <<>>
    /\ disk = <<>>
    /\ loc = NoLoc
    /\ results = <<>>
    /\ csv = <<>>
    /\ status = "none"
    /\ parameter_name_list = <<>>
    /\ parameter_val_list = <<>>
    /\ artifacts = <<>>
    /\ run2 = <<>>

BuildInit == BuildInitOver(rdimage_build_options, rdtest_build_options)

\* rdimage.py:123-146
rdimage_build ==
    /\ prog = "rdimage" /\ pc = "build"
    /\ \E o \in set_orders(rdimage_declared_names) :
          /\ parameter_name_list' = <<"codec">> \o o
          /\ parameter_val_list' = rdimage_parameter_val_list(options, <<"codec">> \o o)
    /\ pc' = "name"
    /\ UNCHANGED <<prog, options, procs, disk, loc, results, csv, status, artifacts, run2>>

\* rdtest.py:286-298
rdtest_build ==
    /\ prog = "rdtest" /\ pc = "build"
    /\ parameter_name_list' = <<"codec", "resolution", "bitrate", "rcmode">>
    /\ parameter_val_list' = rdtest_sweep(options)
    /\ pc' = "name"
    /\ UNCHANGED <<prog, options, procs, disk, loc, results, csv, status, artifacts, run2>>

\* rdimage.py:172-184, 206-210: name the artifacts of the next configuration
rdimage_name_for ==
    /\ prog = "rdimage" /\ pc = "name"
    /\ Len(artifacts) < Len(parameter_val_list)
    /\ artifacts' = Append(artifacts,
          rdimage_artifacts(options.tmp_dir, build_orig_infile, parameter_name_list,
                            parameter_val_list[Len(artifacts) + 1]))
    /\ UNCHANGED <<prog, options, pc, procs, disk, loc, results, csv, status,
                   parameter_name_list, parameter_val_list, run2>>

\* rdtest.py:535-561: name the artifacts of the next configuration
rdtest_name_for ==
    /\ prog = "rdtest" /\ pc = "name"
    /\ Len(artifacts) < Len(parameter_val_list)
    /\ artifacts' = Append(artifacts,
          rdtest_artifacts(options.tmp_dir, build_ref_filename, build_ref_resolution,
                           parameter_val_list[Len(artifacts) + 1]))
    /\ UNCHANGED <<prog, options, pc, procs, disk, loc, results, csv, status,
                   parameter_name_list, parameter_val_list, run2>>

BuildNext == rdimage_build \/ rdtest_build \/ rdimage_name_for \/ rdtest_name_for

SpecBuild == BuildInit /\ [][BuildNext]_vars

\* A second run of the same script on the same command line (rdimage.py:123-146,
\* rdtest.py:286-298): a new process, hence a new order of the set.
second_run ==
    /\ pc = "name" /\ run2 = <<>>
    /\ \E o \in (IF prog = "rdimage" THEN set_orders(rdimage_declared_names)
                 ELSE {<<"resolution", "bitrate", "rcmode">>}) :
          run2' = [names |-> <<"codec">> \o o,
                   vals  |-> IF prog = "rdimage"
                             THEN rdimage_parameter_val_list(options, <<"codec">> \o o)
                             ELSE rdtest_sweep(options)]
    /\ UNCHANGED <<prog, options, pc, procs, disk, loc, results, csv, status,
                   parameter_name_list, parameter_val_list, artifacts>>

rdimage_runs_options ==
    {[rdimage_base_options EXCEPT !.codecs = c, !.heic_quality = <<"0", "20">>] :
        c \in {<<"jpeg/libjpeg-turbo">>, <<"jpeg/libjpeg-turbo", "heic/x265">>}}

rdtest_runs_options ==
    {o \in rdtest_build_options : Len(o.resolutions) = MaxVals /\ Len(o.bitrates) = 1}

RunsInit == BuildInitOver(rdimage_runs_options, rdtest_runs_options)

RunsNext == rdimage_build \/ rdtest_build \/ second_run

SpecRuns == RunsInit /\ [][RunsNext]_vars

---------------------------------------------------------------------------
(* Properties of the builder and the namer                                 *)

\* the axes a codec declares, by name
DeclaredAxes(codec) ==
    IF prog = "rdimage" THEN rdimage_CODEC_INFO[codec].parameters
    ELSE <<"resolution", "bitrate", "rcmode">>

\* the value list the command line gives for an axis
AxisValues(axis) ==
    IF prog = "rdimage" THEN options[axis] ELSE options[axis \o "s"]

AxisPos(axis) ==
    CHOOSE i \in DOMAIN parameter_name_list : parameter_name_list[i] = axis

ConfigCount(codec) ==
    Product([i \in DOMAIN DeclaredAxes(codec) |-> Len(AxisValues(DeclaredAxes(codec)[i]))])

\* number of configurations of the codecs selected before the j-th one
RECURSIVE SegmentStart(_)
SegmentStart(j) ==
    IF j <= 1 THEN 0 ELSE SegmentStart(j - 1) + ConfigCount(options.codecs[j - 1])

\* one index into each declared axis' value list
IndexTuples(codec) ==
    LET D == SeqRange(DeclaredAxes(codec))
        longest == CHOOSE n \in {Len(AxisValues(a)) : a \in D} :
                      \A a \in D : Len(AxisValues(a)) <= n
    IN  {t \in [D -> 1..longest] : \A a \in D : t[a] <= Len(AxisValues(a))}

Built == pc = "name"

\* C4: for each selected codec the builder yields exactly one configuration per
\* element of the cross-product of the value lists of the axes the codec
\* declares (as many as the product of their lengths), every other axis being "".
C4_CrossProductPerCodec ==
    Built =>
        /\ Len(parameter_val_list) = SegmentStart(Len(options.codecs) + 1)
        /\ \A j \in DOMAIN options.codecs :
              LET c   == options.codecs[j]
                  D   == SeqRange(DeclaredAxes(c))
                  seg == (SegmentStart(j) + 1)..(SegmentStart(j) + ConfigCount(c))
              IN  /\ \A n \in seg :
                        /\ parameter_val_list[n][1] = c
                        /\ \A a \in 2..Len(parameter_name_list) :
                              parameter_name_list[a] \notin D => parameter_val_list[n][a] = ""
                  /\ \A t \in IndexTuples(c) :
                        Cardinality({n \in seg : \A a \in D :
                            parameter_val_list[n][AxisPos(a)] = AxisValues(a)[t[a]]})
                        = Cardinality({u \in IndexTuples(c) : \A a \in D :
                            AxisValues(a)[u[a]] = AxisValues(a)[t[a]]})

\* a codec of one axis and a codec of two axes of two values each were built
C4_Witness ==
    /\ Built /\ prog = "rdimage"
    /\ options.codecs = <<"jpeg/libjpeg-turbo", "heic/x265">>
    /\ ConfigCount("heic/x265") = 4 /\ ConfigCount("jpeg/libjpeg-turbo") = 1
    /\ Len(parameter_val_list) = 5

\* C2: two configurations of one codec that differ in the value of an axis get
\* different file names at every stage (encoded, decoded, rescaled).
C2_NamesInjective ==
    \A m, n \in DOMAIN artifacts :
        (/\ m # n
         /\ parameter_val_list[m][1] = parameter_val_list[n][1]
         /\ parameter_val_list[m] # parameter_val_list[n])
        => /\ artifacts[m].enc # artifacts[n].enc
           /\ artifacts[m].dec # artifacts[n].dec
           /\ artifacts[m].decs # artifacts[n].decs

\* C5: two runs of the builder on the same command line give the same axis
\* order and the same sequence of configurations.
C5_SameOrderEveryRun ==
    run2 # <<>> => /\ run2.names = parameter_name_list
                   /\ run2.vals = parameter_val_list

---------------------------------------------------------------------------
(* The batch: state shared by rdtest.py and rdimage.py                     *)

NumCodecs == 2
NumInputs == 2

\* what a non-zero exit code of a process is modelled by
Failure == 1
\* every exit code of a process is 0 or not 0
RetCodes == {0, Failure}

\* what a quality tool prints: a score, or nothing that can be parsed
score == "score"
Scores == {"", score}

\* sep.join(items)
RECURSIVE join(_, _)
join(items, sep) ==
    IF items = <<>> THEN ""
    ELSE IF Len(items) = 1 THEN items[1]
    ELSE items[1] \o sep \o join(Tail(items), sep)

\* utils.py:14
PERCENTILE_LIST == <<0, 5, 10, 25, 75, 90, 95, 100>>

\* the keys f"{prefix}p{percentile}" for percentile in PERCENTILE_LIST
percentile_keys(prefix) ==
    [i \in DOMAIN PERCENTILE_LIST |-> prefix \o "p" \o ToString(PERCENTILE_LIST[i])]

\* utils.py:177-200, 241-264: the keys of psnr_dict and of ssim_dict, in the
\* order they are set
psnr_keys ==
    <<"y_mean", "u_mean", "v_mean">>
        \o percentile_keys("y_") \o percentile_keys("u_") \o percentile_keys("v_")

\* utils.py:317-331: the keys of vmaf_dict
vmaf_keys == <<"mean", "harmonic_mean">> \o percentile_keys("")

\* str() of a dict whose values all print as value
str_dict(keys, value) ==
    "{" \o join([i \in DOMAIN keys |-> "'" \o keys[i] \o "': " \o value], ", ") \o "}"

\* rdtest.py:288-290
parameters_csv_str(codec) ==
    LET ps == rdtest_CODEC_INFO[codec].parameters
    IN  join([i \in DOMAIN ps |-> ps[i][1] \o "=" \o ps[i][2] \o ";"], "")

\* rdtest.py:294-295 (without the end of line)
rdtest_header_line ==
    "# in_filename,codec,resolution,rcmode,bitrate,"
        \o "duration,actual_bitrate,psnr,ssim,vmaf,parameters"

\* rdtest.py:306-309 (without the end of line): duration and actual_bitrate
\* are floats, psnr, ssim and vmaf the strings the patterns matched
rdtest_line(in_basename, cfg) ==
    join(<<in_basename, cfg[1], cfg[2], cfg[4], cfg[3],
           "1.5", "10.0", score, score, score, parameters_csv_str(cfg[1])>>, ",")

\* rdimage.py:240-245 (without the end of line)
rdimage_header_line(names) ==
    "codec,infile,resolution," \o join(Tail(names), ",")
        \o ",infilesize,inbpp,outfilesize,outbpp,ratiobpp,duration,psnr,ssim,vmaf"

\* rdimage.py:220-236, 246-247 (without the end of line): duration is the
\* dict utils.run returns last, psnr, ssim and vmaf the dicts the parsers return
rdimage_line(infile, resolution, vals) ==
    join(<<vals[1], basename(infile), resolution>> \o Tail(vals)
            \o <<"100", "1.0", "10", "0.1", "0.1",
                 str_dict(<<"time_diff">>, "1.5"),
                 str_dict(psnr_keys, score), str_dict(psnr_keys, score),
                 str_dict(vmaf_keys, score)>>, ",")

\* a row of a result table: the line written, and whose row it is
\* (orig is the input file the row is about, input the name it is printed with)
Row(orig, input, k, cfg, line) ==
    [header |-> FALSE, orig |-> orig, input |-> input, k |-> k, cfg |-> cfg,
     line |-> line]

Header(line) ==
    [header |-> TRUE, orig |-> "", input |-> "", k |-> 0, cfg |-> <<>>, line |-> line]

\* properties of a media file: what ffprobe reports for it
Props(res, pix) == [res |-> res, pix |-> pix]
drift_res == "638x360"
drift_pix == "yuv422p"

\* what a transcode asked for (res, pix) may write: the request, or not quite
Written(res, pix) == {Props(r, x) : r \in {res, drift_res}, x \in {pix, drift_pix}}

Write(d, path, props) ==
    [q \in DOMAIN d \cup {path} |-> IF q = path THEN props ELSE d[q]]

\* os.remove of each path of S
Remove(d, S) == [q \in DOMAIN d \ S |-> d[q]]

in_props == Props("640x360", "yuv420p")
EmptyDisk == [q \in {} |-> in_props]

NoArt == [enc |-> "", dec |-> "", decs |-> ""]

InitLoc ==
    [i |-> 1, k |-> 0, g |-> 1,
     in_resolution |-> "", in_framerate |-> "", resolution |-> "",
     ref_filename |-> "", ref_resolution |-> "",
     infile_list |-> <<>>, orig_infile |-> "", infile |-> "",
     art |-> NoArt, libvmaf |-> FALSE]

\* a VMAF computed by the filter of ffmpeg whatever ffmpeg -filters listed
vmaf_path_filter_only ==
    IF pc \in {"vmaf", "u_vmaf"} THEN "libvmaf" ELSE ""

\* rdtest.py:352-389, utils.py:287-310: the program that computes the VMAF:
\* rdtest.py runs the libvmaf filter of ffmpeg when ffmpeg -filters listed it
\* and the run_vmaf binary otherwise; utils.py always runs the filter
vmaf_path ==
    IF pc = "vmaf" THEN (IF loc.libvmaf THEN "libvmaf" ELSE "run_vmaf")
    ELSE IF pc = "u_vmaf" THEN "libvmaf"
    ELSE ""

\* one external process: what was run on which files, and how it ended
Proc(stage, what, input, k, src, ref, dst) ==
    [step |-> pc, stage |-> stage, what |-> what, input |-> input, k |-> k,
     src |-> src, ref |-> ref, dst |-> dst, via |-> vmaf_path,
     done |-> FALSE, rc |-> 0, out |-> ""]

Running == {p \in DOMAIN procs : ~procs[p].done}

\* the process the interpreter is blocked on, in p.communicate()
Waiting(step) == pc = step /\ procs # <<>> /\ ~procs[Len(procs)].done

\* p.communicate() returns: the process has ended with rc, having printed out
Ended(rc, out) ==
    [procs EXCEPT ![Len(procs)].done = TRUE, ![Len(procs)].rc = rc, ![Len(procs)].out = out]

\* what ffprobe prints for a property of a file: the property or, when it
\* fails, nothing
Probed(path, what) ==
    {""} \cup (IF path \in DOMAIN disk THEN {disk[path][what]} ELSE {})

\* what a probe query gives its caller: a value, or an exception
ProbeValue(v) == [raised |-> FALSE, value |-> v]
ProbeError == [raised |-> TRUE, value |-> ""]

\* rdtest.py:209-215: the exit code is not looked at; stdout is returned
rdtest_ffprobe_run(retcode, stdout) == ProbeValue(stdout)

\* utils.py:96-104: the exit code must be 0; stdout is returned as it is
utils_ffprobe_run(retcode, stdout) ==
    IF retcode # 0 THEN ProbeError ELSE ProbeValue(stdout)

\* an uncaught exception: the traceback is printed and the script exits 1
Raise(rc, out) ==
    /\ procs' = Ended(rc, out)
    /\ pc' = "aborted"
    /\ status' = "nonzero"
    /\ UNCHANGED <<prog, options, disk, loc, results, csv,
                   parameter_name_list, parameter_val_list, artifacts, run2>>

\* the index of the current configuration in the sweep
rdtest_config_index == (loc.i - 1) * Len(rdtest_inner_sweep(options)) + loc.k

rdtest_config == <<options.codecs[loc.i]>> \o rdtest_inner_sweep(options)[loc.k]

\* rdtest.py:267-268
rdtest_ref_resolution(opts, in_resolution) ==
    IF opts.ref_res = None THEN in_resolution ELSE opts.ref_res

\* the number of the configuration under way (0 before the sweep)
CurrentK == IF prog = "rdtest" THEN rdtest_config_index ELSE loc.k

\* rdtest.py:357: the log the libvmaf filter is told to write
rdtest_vmaf_log == "/tmp/vmaf.txt"

\* utils.py:141-145, 205-209, 288-292: tempfile.NamedTemporaryFile(...).name,
\* a name tempfile has given to no one else: here that of the input and the
\* configuration under way
temp_log(prefix, suffix) ==
    "/tmp/" \o prefix \o ToString(loc.i) \o "_" \o ToString(loc.k) \o suffix

\* the external process each position of the two scripts spawns
process_at ==
    LET V(stage, what, k, src, ref, dst) ==
            Proc(stage, what, options.infile, k, src, ref, dst)
        I(stage, what, k, src, ref, dst) ==
            Proc(stage, what, loc.orig_infile, k, src, ref, dst)
    IN
    CASE pc = "in_res"   -> V("probe", "res", 0, options.infile, "", "")
      [] pc = "in_fr"    -> V("probe", "fr", 0, options.infile, "", "")
      [] pc = "ref"      -> V("normalize", "", 0, options.infile, "", loc.ref_filename)
      [] pc = "ref_res"  -> V("probe", "res", 0, loc.ref_filename, "", "")
      [] pc = "ref_pix"  -> V("probe", "pix", 0, loc.ref_filename, "", "")
      [] pc = "enc"      -> V("encode", "", CurrentK, loc.ref_filename, "", loc.art.enc)
      [] pc = "dec"      -> V("decode", "", CurrentK, loc.art.enc, "", loc.art.dec)
      [] pc = "scale"    -> V("rescale", "", CurrentK, loc.art.dec, "", loc.art.decs)
      [] pc = "decs_res" -> V("probe", "res", CurrentK, loc.art.decs, "", "")
      [] pc = "decs_pix" -> V("probe", "pix", CurrentK, loc.art.decs, "", "")
      [] pc = "psnr"     -> V("measure", "psnr", CurrentK, loc.art.decs, loc.ref_filename, "")
      [] pc = "ssim"     -> V("measure", "ssim", CurrentK, loc.art.decs, loc.ref_filename, "")
      [] pc = "filters"  -> V("query", "filters", CurrentK, "", "", "")
      [] pc = "vmaf"     -> V("measure", "vmaf", CurrentK, loc.art.decs, loc.ref_filename,
                              IF loc.libvmaf THEN rdtest_vmaf_log ELSE "")
      [] pc = "bitrate"  -> V("probe", "dur", CurrentK, loc.art.enc, "", "")
      [] pc = "check_software" -> Proc("query", "filters", "", 0, "", "", "")
      [] pc = "glob"     -> Proc("probe", "res", options.indir[loc.g], 0,
                                 options.indir[loc.g], "", "")
      [] pc = "convert"  -> I("normalize", "", CurrentK, loc.orig_infile, "", loc.infile)
      [] pc = "encode"   -> I("encode", "", CurrentK, loc.infile, "", loc.art.enc)
      [] pc = "resolution" -> I("probe", "res", CurrentK, loc.infile, "", "")
      [] pc = "decode"   -> I("decode", "", CurrentK, loc.art.enc, "", loc.art.dec)
      [] pc = "u_psnr"   -> I("measure", "psnr", CurrentK, loc.art.dec, loc.infile,
                              temp_log("psnr.", ".log"))
      [] pc = "u_ssim"   -> I("measure", "ssim", CurrentK, loc.art.dec, loc.infile,
                              temp_log("ssim.", ".log"))
      [] pc = "u_vmaf"   -> I("measure", "vmaf", CurrentK, loc.art.dec, loc.infile,
                              temp_log("vmaf.", ".json"))

ProcSteps ==
    {"in_res", "in_fr", "ref", "ref_res", "ref_pix", "enc", "dec", "scale", "decs_res",
     "decs_pix", "psnr", "ssim", "filters", "vmaf", "bitrate", "check_software", "glob",
     "convert", "encode", "resolution", "decode", "u_psnr", "u_ssim", "u_vmaf"}

\* The history keeps the processes that prepared the inputs and the reference
\* artifacts, and those of the configuration under way: when a configuration
\* is complete, its other processes are forgotten.
Forget(ps) == SelectSeq(ps, LAMBDA e : e.k = 0 \/ e.stage = "normalize")

\* rdtest.py:158-168, utils.py:66-76: subprocess.Popen.  Command.Run and
\* utils.run then block in p.communicate(): nothing is spawned while a
\* process runs.
Popen ==
    /\ pc \in ProcSteps
    /\ Running = {}
    /\ procs' = Append(procs, process_at)
    /\ UNCHANGED <<prog, options, pc, disk, loc, results, csv, status,
                   parameter_name_list, parameter_val_list, artifacts, run2>>

---------------------------------------------------------------------------
(* rdtest.py: run_experiment and run_single_experiment                     *)

\* rdtest.py:250-258
rdtest_start ==
    /\ prog = "rdtest" /\ pc = "start"
    /\ IF options.infile \in DOMAIN disk
       THEN /\ pc' = "in_res"
            /\ loc' = [loc EXCEPT !.orig_infile = options.infile]
            /\ UNCHANGED status
       ELSE /\ pc' = "aborted"
            /\ status' = "nonzero"
            /\ UNCHANGED loc
    /\ UNCHANGED <<prog, options, procs, disk, results, csv,
                   parameter_name_list, parameter_val_list, artifacts, run2>>

\* rdtest.py:259 with 209-219: the exit code of ffprobe is not looked at
rdtest_get_in_resolution ==
    /\ Waiting("in_res")
    /\ \E out \in Probed(options.infile, "res") :
          /\ procs' = Ended(IF out = "" THEN Failure ELSE 0, out)
          /\ loc' = [loc EXCEPT !.in_resolution =
                        rdtest_ffprobe_run(IF out = "" THEN Failure ELSE 0, out).value]
    /\ pc' = "in_fr"
    /\ UNCHANGED <<prog, options, disk, results, csv, status,
                   parameter_name_list, parameter_val_list, artifacts, run2>>

\* rdtest.py:260-270
rdtest_get_in_framerate ==
    /\ Waiting("in_fr")
    /\ \E out \in {"", "30/1"} :
          /\ procs' = Ended(IF out = "" THEN Failure ELSE 0, out)
          /\ loc' = [loc EXCEPT
                !.in_framerate = out,
                !.ref_filename = rdtest_ref_filename(options.tmp_dir, options.infile,
                                                     loc.in_resolution),
                !.ref_resolution = rdtest_ref_resolution(options, loc.in_resolution)]
    /\ pc' = "ref"
    /\ UNCHANGED <<prog, options, disk, results, csv, status,
                   parameter_name_list, parameter_val_list, artifacts, run2>>

\* rdtest.py:277
ref_assert(retcode) == retcode = 0

\* rdtest.py:271-277: the transcode that makes the reference
rdtest_normalize ==
    /\ Waiting("ref")
    /\ \E rc \in RetCodes :
          IF ref_assert(rc)
          THEN /\ procs' = Ended(rc, "")
               /\ \E w \in Written(loc.ref_resolution, options.ref_pix_fmt) :
                     disk' = Write(disk, loc.ref_filename, w)
               /\ pc' = "ref_res"
               /\ UNCHANGED <<prog, options, loc, results, csv, status,
                              parameter_name_list, parameter_val_list, artifacts, run2>>
          ELSE Raise(rc, "")

\* rdtest.py:279, 573
resolution_assert(ref_resolution, probed) == ref_resolution = probed

\* rdtest.py:282, 576
pix_fmt_assert(ref_pix_fmt, probed) == ref_pix_fmt = probed

\* rdtest.py:278-281
rdtest_check_ref_resolution ==
    /\ Waiting("ref_res")
    /\ \E out \in Probed(loc.ref_filename, "res") :
          IF resolution_assert(loc.ref_resolution, out)
          THEN /\ procs' = Ended(IF out = "" THEN Failure ELSE 0, out)
               /\ pc' = "ref_pix"
               /\ UNCHANGED <<prog, options, disk, loc, results, csv, status,
                              parameter_name_list, parameter_val_list, artifacts, run2>>
          ELSE Raise(IF out = "" THEN Failure ELSE 0, out)

\* rdtest.py:282-284
rdtest_check_ref_pix_fmt ==
    /\ Waiting("ref_pix")
    /\ \E out \in Probed(loc.ref_filename, "pix") :
          IF pix_fmt_assert(options.ref_pix_fmt, out)
          THEN /\ procs' = Ended(IF out = "" THEN Failure ELSE 0, out)
               /\ pc' = "codec"
               /\ UNCHANGED <<prog, options, disk, loc, results, csv, status,
                              parameter_name_list, parameter_val_list, artifacts, run2>>
          ELSE Raise(IF out = "" THEN Failure ELSE 0, out)

\* rdtest.py:291
rdtest_outfile(opts, codec) == opts.outfile \o ".codec_" \o codec \o ".csv"

\* rdtest.py:286-295 and 535-546: the next codec: its result file is opened
\* and the header written; the first configuration is named
rdtest_open_outfile ==
    /\ prog = "rdtest" /\ pc = "codec"
    /\ loc.i <= Len(options.codecs)
    /\ csv' = Write(csv, rdtest_outfile(options, options.codecs[loc.i]), <<Header(rdtest_header_line)>>)
    /\ loc' = [loc EXCEPT !.k = 1,
                  !.art = rdtest_artifacts(options.tmp_dir, loc.ref_filename,
                              loc.ref_resolution,
                              <<options.codecs[loc.i]>> \o rdtest_inner_sweep(options)[1])]
    /\ pc' = "enc"
    /\ UNCHANGED <<prog, options, procs, disk, results, status,
                   parameter_name_list, parameter_val_list, artifacts, run2>>

\* rdtest.py:286, 710: no codec is left: run_experiment and main return
rdtest_done ==
    /\ prog = "rdtest" /\ pc = "codec"
    /\ loc.i > Len(options.codecs)
    /\ pc' = "done"
    /\ status' = "zero"
    /\ UNCHANGED <<prog, options, procs, disk, loc, results, csv,
                   parameter_name_list, parameter_val_list, artifacts, run2>>

\* rdtest.py:487
enc_assert_ignored(retcode) == TRUE

enc_assert(retcode) == retcode = 0

\* rdtest.py:547-548 with 443-488: the encoder has ended
run_single_enc ==
    /\ Waiting("enc")
    /\ \E rc \in RetCodes :
          IF enc_assert(rc)
          THEN /\ procs' = Ended(rc, "")
               /\ disk' = IF rc = 0
                          THEN Write(disk, loc.art.enc,
                                     Props(rdtest_config[2], options.ref_pix_fmt))
                          ELSE disk
               /\ pc' = "dec"
               /\ UNCHANGED <<prog, options, loc, results, csv, status,
                              parameter_name_list, parameter_val_list, artifacts, run2>>
          ELSE Raise(rc, "")

dec_assert_ignored(retcode) == TRUE

\* rdtest.py:525
dec_assert(retcode) == retcode = 0

\* rdtest.py:550-553 with 491-525: the decoder has ended
run_single_dec ==
    /\ Waiting("dec")
    /\ \E rc \in RetCodes :
          IF dec_assert(rc)
          THEN /\ procs' = Ended(rc, "")
               /\ disk' = IF rc = 0 /\ loc.art.enc \in DOMAIN disk
                          THEN Write(disk, loc.art.dec, disk[loc.art.enc])
                          ELSE disk
               /\ pc' = "scale"
               /\ UNCHANGED <<prog, options, loc, results, csv, status,
                              parameter_name_list, parameter_val_list, artifacts, run2>>
          ELSE Raise(rc, "")

\* rdtest.py:571
scale_assert(retcode) == retcode = 0

\* rdtest.py:555-571: the decoded file is scaled to the reference's
\* resolution and pixel format
rdtest_scale ==
    /\ Waiting("scale")
    /\ \E rc \in RetCodes :
          IF scale_assert(rc)
          THEN /\ procs' = Ended(rc, "")
               /\ IF rc = 0
                  THEN \E w \in Written(loc.ref_resolution, options.ref_pix_fmt) :
                          disk' = Write(disk, loc.art.decs, w)
                  ELSE disk' = disk
               /\ pc' = "decs_res"
               /\ UNCHANGED <<prog, options, loc, results, csv, status,
                              parameter_name_list, parameter_val_list, artifacts, run2>>
          ELSE Raise(rc, "")

\* rdtest.py:572-575
rdtest_check_decs_resolution ==
    /\ Waiting("decs_res")
    /\ \E out \in Probed(loc.art.decs, "res") :
          IF resolution_assert(loc.ref_resolution, out)
          THEN /\ procs' = Ended(IF out = "" THEN Failure ELSE 0, out)
               /\ pc' = "decs_pix"
               /\ UNCHANGED <<prog, options, disk, loc, results, csv, status,
                              parameter_name_list, parameter_val_list, artifacts, run2>>
          ELSE Raise(IF out = "" THEN Failure ELSE 0, out)

\* rdtest.py:576-578
rdtest_check_decs_pix_fmt ==
    /\ Waiting("decs_pix")
    /\ \E out \in Probed(loc.art.decs, "pix") :
          IF pix_fmt_assert(options.ref_pix_fmt, out)
          THEN /\ procs' = Ended(IF out = "" THEN Failure ELSE 0, out)
               /\ pc' = "psnr"
               /\ UNCHANGED <<prog, options, disk, loc, results, csv, status,
                              parameter_name_list, parameter_val_list, artifacts, run2>>
          ELSE Raise(IF out = "" THEN Failure ELSE 0, out)

\* what a comparison prints: a line the pattern matches, or none
\* rdtest.py:312-324: the exit code is not looked at; the pattern must match
rdtest_get_psnr ==
    /\ Waiting("psnr")
    /\ \E rc \in RetCodes, out \in Scores :
          IF out # ""
          THEN /\ procs' = Ended(rc, out)
               /\ pc' = "ssim"
               /\ UNCHANGED <<prog, options, disk, loc, results, csv, status,
                              parameter_name_list, parameter_val_list, artifacts, run2>>
          ELSE Raise(rc, out)

\* rdtest.py:327-339
rdtest_get_ssim ==
    /\ Waiting("ssim")
    /\ \E rc \in RetCodes, out \in Scores :
          IF out # ""
          THEN /\ procs' = Ended(rc, out)
               /\ pc' = "filters"
               /\ UNCHANGED <<prog, options, disk, loc, results, csv, status,
                              parameter_name_list, parameter_val_list, artifacts, run2>>
          ELSE Raise(rc, out)

\* rdtest.py:343-350: ffmpeg -filters
rdtest_supports_libvmaf ==
    /\ Waiting("filters")
    /\ \E rc \in RetCodes, libvmaf \in BOOLEAN :
          IF rc = 0
          THEN /\ procs' = Ended(rc, IF libvmaf THEN "libvmaf" ELSE "")
               /\ loc' = [loc EXCEPT !.libvmaf = libvmaf]
               /\ pc' = "vmaf"
               /\ UNCHANGED <<prog, options, disk, results, csv, status,
                              parameter_name_list, parameter_val_list, artifacts, run2>>
          ELSE Raise(rc, "")

\* rdtest.py:352-389: libvmaf in ffmpeg, or the run_vmaf binary
rdtest_get_vmaf ==
    /\ Waiting("vmaf")
    /\ \E rc \in RetCodes, out \in Scores :
          IF rc = 0 /\ out # ""
          THEN /\ procs' = Ended(rc, out)
               /\ pc' = "bitrate"
               /\ UNCHANGED <<prog, options, disk, loc, results, csv, status,
                              parameter_name_list, parameter_val_list, artifacts, run2>>
          ELSE Raise(rc, out)

\* rdtest.py:588-589 with 236-240: float() of what ffprobe printed
rdtest_get_bitrate ==
    /\ Waiting("bitrate")
    /\ \E out \in {"", "10.0"} :
          IF out # "" /\ loc.art.enc \in DOMAIN disk
          THEN /\ procs' = Ended(0, out)
               /\ pc' = "cleanup"
               /\ UNCHANGED <<prog, options, disk, loc, results, csv, status,
                              parameter_name_list, parameter_val_list, artifacts, run2>>
          ELSE Raise(IF out = "" THEN Failure ELSE 0, out)

\* the paths rdtest.py keeps when asked to clean up only the intermediates
cleanup_targets_keep_encoded(art) == {art.dec, art.decs}

cleanup_targets_and_reference(art) == {art.enc, art.dec, art.decs, loc.ref_filename}

\* rdtest.py:593-595
cleanup_targets(art) == {art.enc, art.dec, art.decs}

\* rdtest.py:591-595: os.remove raises when the file is not there
rdtest_cleanup ==
    /\ prog = "rdtest" /\ pc = "cleanup"
    /\ IF ~options.cleanup
       THEN /\ pc' = "row"
            /\ UNCHANGED <<disk, status>>
       ELSE IF cleanup_targets(loc.art) \subseteq DOMAIN disk
       THEN /\ disk' = Remove(disk, cleanup_targets(loc.art))
            /\ pc' = "row"
            /\ UNCHANGED status
       ELSE /\ pc' = "aborted"
            /\ status' = "nonzero"
            /\ UNCHANGED disk
    /\ UNCHANGED <<prog, options, procs, loc, results, csv,
                   parameter_name_list, parameter_val_list, artifacts, run2>>

\* rdtest.py:296-309 and 535-546: the row is written; the loops advance and
\* the next configuration is named
rdtest_write_row ==
    /\ prog = "rdtest" /\ pc = "row"
    /\ LET out == rdtest_outfile(options, options.codecs[loc.i])
           row == Row(options.infile, basename(options.infile), rdtest_config_index,
                      rdtest_config,
                      rdtest_line(basename(options.infile), rdtest_config))
       IN  /\ csv' = [csv EXCEPT ![out] = Append(@, row)]
           /\ results' = Append(results, row)
    /\ procs' = Forget(procs)
    /\ IF loc.k < Len(rdtest_inner_sweep(options))
       THEN /\ loc' = [loc EXCEPT !.k = loc.k + 1,
                          !.art = rdtest_artifacts(options.tmp_dir, loc.ref_filename,
                              loc.ref_resolution,
                              <<options.codecs[loc.i]>>
                                  \o rdtest_inner_sweep(options)[loc.k + 1])]
            /\ pc' = "enc"
       ELSE /\ loc' = [loc EXCEPT !.i = loc.i + 1]
            /\ pc' = "codec"
    /\ UNCHANGED <<prog, options, disk, status,
                   parameter_name_list, parameter_val_list, artifacts, run2>>

---------------------------------------------------------------------------
(* rdimage.py: run_experiment                                              *)

\* utils.py:268-284: ffmpeg -filters must succeed and list libvmaf
check_software ==
    /\ Waiting("check_software")
    /\ \E rc \in RetCodes, libvmaf \in BOOLEAN :
          IF rc = 0 /\ libvmaf
          THEN /\ procs' = Ended(rc, "libvmaf")
               /\ loc' = [loc EXCEPT !.libvmaf = libvmaf]
               /\ pc' = IF loc.g <= Len(options.indir) THEN "glob" ELSE "params"
               /\ UNCHANGED <<prog, options, disk, results, csv, status,
                              parameter_name_list, parameter_val_list, artifacts, run2>>
          ELSE Raise(rc, IF libvmaf THEN "libvmaf" ELSE "")

\* rdimage.py:112-121 with utils.py:96-117: a file ffprobe fails on is
\* skipped; a file whose probed resolution holds no 'x' ends the run
rdimage_probe_input ==
    /\ Waiting("glob")
    /\ LET fname == options.indir[loc.g]
           after == IF loc.g < Len(options.indir) THEN "glob" ELSE "params"
       IN  \E rc \in RetCodes, out \in Probed(fname, "res") :
              IF utils_ffprobe_run(rc, out).raised
              THEN /\ out = ""
                   /\ procs' = Ended(rc, out)
                   /\ loc' = [loc EXCEPT !.g = loc.g + 1]
                   /\ pc' = after
                   /\ UNCHANGED <<prog, options, disk, results, csv, status,
                              parameter_name_list, parameter_val_list, artifacts, run2>>
              ELSE IF Contains(out, "x")
              THEN /\ procs' = Ended(rc, out)
                   /\ loc' = [loc EXCEPT !.g = loc.g + 1,
                                         !.infile_list = Append(loc.infile_list, fname)]
                   /\ pc' = after
                   /\ UNCHANGED <<prog, options, disk, results, csv, status,
                              parameter_name_list, parameter_val_list, artifacts, run2>>
              ELSE Raise(rc, out)

\* the orders of the set of parameter names the batch is checked for: the
\* order of declaration and its reverse
pipeline_orders ==
    {<<"jpeg_quality", "jxl_quality", "heic_quality", "heic_preset", "avif_speed">>,
     <<"avif_speed", "heic_preset", "heic_quality", "jxl_quality", "jpeg_quality">>}

\* rdimage.py:123-149
rdimage_parameters ==
    /\ prog = "rdimage" /\ pc = "params"
    /\ \E o \in pipeline_orders :
          /\ parameter_name_list' = <<"codec">> \o o
          /\ parameter_val_list' = rdimage_parameter_val_list(options, <<"codec">> \o o)
    /\ loc' = [loc EXCEPT !.i = 1, !.k = 1]
    /\ pc' = "cfg"
    /\ UNCHANGED <<prog, options, procs, disk, results, csv, status, artifacts, run2>>

\* rdimage.py:150-184, 206-210: the next configuration of the next input: the
\* file the encoder reads and the artifacts are named; the input is converted
\* when its format is not the one the codec reads
rdimage_next_config ==
    /\ prog = "rdimage" /\ pc = "cfg"
    /\ IF loc.i <= Len(loc.infile_list)
       THEN LET orig   == loc.infile_list[loc.i]
                vals   == parameter_val_list[loc.k]
                infile == rdimage_infile(options.tmp_dir, orig, vals[1])
            IN  /\ loc' = [loc EXCEPT !.orig_infile = orig, !.infile = infile,
                              !.art = rdimage_artifacts(options.tmp_dir, orig,
                                                        parameter_name_list, vals)]
                /\ pc' = IF infile = orig THEN "encode" ELSE "convert"
       ELSE /\ pc' = "dump"
            /\ UNCHANGED loc
    /\ UNCHANGED <<prog, options, procs, disk, results, csv, status,
                   parameter_name_list, parameter_val_list, artifacts, run2>>

\* rdimage.py:169-171
rdimage_convert_assert(retcode) == retcode = 0

\* rdimage.py:165-171: ffmpeg -y -i orig_infile infile has ended; no pixel
\* format is asked for, the one of the new container is taken
rdimage_convert ==
    /\ Waiting("convert")
    /\ \E rc \in RetCodes :
          IF rdimage_convert_assert(rc)
          THEN /\ procs' = Ended(rc, "")
               /\ \E pix \in {disk[loc.orig_infile].pix, drift_pix} :
                     disk' = IF rc = 0
                             THEN Write(disk, loc.infile,
                                        Props(disk[loc.orig_infile].res, pix))
                             ELSE disk
               /\ pc' = "encode"
               /\ UNCHANGED <<prog, options, loc, results, csv, status,
                              parameter_name_list, parameter_val_list, artifacts, run2>>
          ELSE Raise(rc, "")

\* rdimage.py:191-193
rdimage_enc_assert(retcode) == retcode = 0

\* rdimage.py:185-193: the encoder has ended
rdimage_encode ==
    /\ Waiting("encode")
    /\ \E rc \in RetCodes :
          IF rdimage_enc_assert(rc)
          THEN /\ procs' = Ended(rc, "")
               /\ disk' = IF rc = 0 /\ loc.infile \in DOMAIN disk
                          THEN Write(disk, loc.art.enc, disk[loc.infile])
                          ELSE disk
               /\ pc' = "resolution"
               /\ UNCHANGED <<prog, options, loc, results, csv, status,
                              parameter_name_list, parameter_val_list, artifacts, run2>>
          ELSE Raise(rc, "")

\* rdimage.py:194-204 with utils.py:96-117: ffprobe must succeed, both files
\* must be there (os.path.getsize) and the resolution must be two integers
rdimage_resolution ==
    /\ Waiting("resolution")
    /\ \E rc \in RetCodes, out \in Probed(loc.infile, "res") :
          IF /\ ~utils_ffprobe_run(rc, out).raised
             /\ Contains(out, "x")
             /\ {loc.infile, loc.art.enc} \subseteq DOMAIN disk
          THEN /\ procs' = Ended(rc, out)
               /\ loc' = [loc EXCEPT !.resolution = out]
               /\ pc' = IF rdimage_CODEC_INFO[parameter_val_list[loc.k][1]].decode_command
                            = None
                        THEN "u_psnr" ELSE "decode"
               /\ UNCHANGED <<prog, options, disk, results, csv, status,
                              parameter_name_list, parameter_val_list, artifacts, run2>>
          ELSE Raise(rc, IF rc = 0 THEN out ELSE "")

\* rdimage.py:213-215
rdimage_dec_assert(retcode) == retcode = 0

\* rdimage.py:205-215: the decoder has ended
rdimage_decode ==
    /\ Waiting("decode")
    /\ \E rc \in RetCodes :
          IF rdimage_dec_assert(rc)
          THEN /\ procs' = Ended(rc, "")
               /\ disk' = IF rc = 0 /\ loc.art.enc \in DOMAIN disk
                          THEN Write(disk, loc.art.dec, disk[loc.art.enc])
                          ELSE disk
               /\ pc' = "u_psnr"
               /\ UNCHANGED <<prog, options, loc, results, csv, status,
                              parameter_name_list, parameter_val_list, artifacts, run2>>
          ELSE Raise(rc, "")

\* utils.py:140-201: the exit code is not looked at; the log must hold a score
utils_get_psnr ==
    /\ Waiting("u_psnr")
    /\ \E rc \in RetCodes, out \in Scores :
          IF out # ""
          THEN /\ procs' = Ended(rc, out)
               /\ pc' = "u_ssim"
               /\ UNCHANGED <<prog, options, disk, loc, results, csv, status,
                              parameter_name_list, parameter_val_list, artifacts, run2>>
          ELSE Raise(rc, out)

\* utils.py:204-265
utils_get_ssim ==
    /\ Waiting("u_ssim")
    /\ \E rc \in RetCodes, out \in Scores :
          IF out # ""
          THEN /\ procs' = Ended(rc, out)
               /\ pc' = "u_vmaf"
               /\ UNCHANGED <<prog, options, disk, loc, results, csv, status,
                              parameter_name_list, parameter_val_list, artifacts, run2>>
          ELSE Raise(rc, out)

\* utils.py:287-332: the exit code must be 0 and the json must hold a score
utils_get_vmaf ==
    /\ Waiting("u_vmaf")
    /\ \E rc \in RetCodes, out \in Scores :
          IF rc = 0 /\ out # ""
          THEN /\ procs' = Ended(rc, out)
               /\ pc' = "store"
               /\ UNCHANGED <<prog, options, disk, loc, results, csv, status,
                              parameter_name_list, parameter_val_list, artifacts, run2>>
          ELSE Raise(rc, out)

\* rdimage.py:150-151, 220-236: the row is kept in memory and the loops
\* advance; no file is removed, whatever options.cleanup is
rdimage_store ==
    /\ prog = "rdimage" /\ pc = "store"
    /\ results' = Append(results,
                         Row(loc.orig_infile, basename(loc.infile), loc.k,
                             parameter_val_list[loc.k],
                             rdimage_line(loc.infile, loc.resolution,
                                          parameter_val_list[loc.k])))
    /\ procs' = Forget(procs)
    /\ loc' = IF loc.k < Len(parameter_val_list)
              THEN [loc EXCEPT !.k = loc.k + 1]
              ELSE [loc EXCEPT !.i = loc.i + 1, !.k = 1]
    /\ pc' = "cfg"
    /\ UNCHANGED <<prog, options, disk, csv, status,
                   parameter_name_list, parameter_val_list, artifacts, run2>>

\* rdimage.py:237-247, 423: the header and every row are written; main returns
rdimage_dump ==
    /\ prog = "rdimage" /\ pc = "dump"
    /\ csv' = Write(csv, options.outfile,
                    <<Header(rdimage_header_line(parameter_name_list))>> \o results)
    /\ pc' = "done"
    /\ status' = "zero"
    /\ UNCHANGED <<prog, options, procs, disk, loc, results,
                   parameter_name_list, parameter_val_list, artifacts, run2>>

rdimage_next ==
    \/ check_software \/ rdimage_probe_input \/ rdimage_parameters
    \/ rdimage_next_config \/ rdimage_convert \/ rdimage_encode \/ rdimage_resolution
    \/ rdimage_decode \/ utils_get_psnr \/ utils_get_ssim \/ utils_get_vmaf
    \/ rdimage_store \/ rdimage_dump

rdtest_next ==
    \/ rdtest_start \/ rdtest_get_in_resolution \/ rdtest_get_in_framerate
    \/ rdtest_normalize \/ rdtest_check_ref_resolution \/ rdtest_check_ref_pix_fmt
    \/ rdtest_open_outfile \/ rdtest_done
    \/ run_single_enc \/ run_single_dec \/ rdtest_scale
    \/ rdtest_check_decs_resolution \/ rdtest_check_decs_pix_fmt
    \/ rdtest_get_psnr \/ rdtest_get_ssim \/ rdtest_supports_libvmaf \/ rdtest_get_vmaf
    \/ rdtest_get_bitrate \/ rdtest_cleanup \/ rdtest_write_row

\* the command lines of rdtest.py the batch is checked for: distinct codecs,
\* or one codec named twice (get_options takes any list of registry keys)
rdtest_pipeline_options ==
    {[infile |-> "/in/clip.mp4", outfile |-> "/out/rd",
      codecs |-> cs,
      resolutions |-> SubSeq(RESOLUTIONS, 1, MaxVals),
      bitrates |-> SubSeq(BITRATES, 1, 1),
      rcmodes |-> RCMODES,
      tmp_dir |-> "/tmp/", cleanup |-> c, ref_res |-> r, ref_pix_fmt |-> "yuv420p"] :
        cs \in {SubSeq(Tail(rdtest_CODEC_KEYS), 1, NumCodecs), <<"x264", "x264">>},
        c \in BOOLEAN, r \in {None, "320x180"}}

\* the command lines of rdimage.py the batch is checked for; indir stands
\* for what glob finds in the directory
rdimage_pipeline_options ==
    {[rdimage_base_options EXCEPT
        !.codecs = SubSeq(<<"jxl/libjxl", "avif/svt", "jpeg/libjpeg-turbo">>, 1, NumCodecs),
        !.jxl_quality = SubSeq(<<"10", "30", "50">>, 1, MaxVals),
        !.cleanup = c] @@
      [indir |-> SubSeq(<<"/in/a.ppm", "/in/b.png", "/in/c.y4m">>, 1, NumInputs),
       outfile |-> "/out/rd.csv"] :
        c \in BOOLEAN}

---------------------------------------------------------------------------
Init ==
    /\ prog \in {"rdtest", "rdimage"}
    /\ options \in (IF prog = "rdtest" THEN rdtest_pipeline_options
                    ELSE rdimage_pipeline_options)
    /\ disk \in (IF prog = "rdtest"
                 THEN {EmptyDisk, Write(EmptyDisk, options.infile, in_props)}
                 ELSE {[q \in SeqRange(options.indir) |-> in_props]})
    /\ pc = (IF prog = "rdtest" THEN "start" ELSE "check_software")
    /\ procs = <<>>
    /\ loc = InitLoc
    /\ results = <<>>
    /\ csv = EmptyDisk
    /\ status = "none"
    /\ parameter_name_list = <<>>
    /\ parameter_val_list = <<>>
    /\ artifacts = <<>>
    /\ run2 = <<>>

Next == Popen \/ rdtest_next \/ rdimage_next

Spec == Init /\ [][Next]_vars

---------------------------------------------------------------------------
(* Properties of the batch                                                 *)

\* every row written so far, in memory or in a result file
Rows == SeqRange(results) \cup UNION {SeqRange(csv[f]) : f \in DOMAIN csv}

\* the rows of configuration k of an input
RowsOf(input, k) == {r \in Rows : ~r.header /\ r.orig = input /\ r.k = k}

SameConfig(p, q) == procs[p].input = procs[q].input /\ procs[p].k = procs[q].k

FailedEncodes ==
    {p \in DOMAIN procs : procs[p].stage = "encode" /\ procs[p].done /\ procs[p].rc # 0}

\* C1: when the encode command of a configuration exits non-zero, the batch
\* aborts: no process is started after it, no row is written for that
\* configuration, and the script ends with a non-zero status.
C1_EncodeFailureAborts ==
    \A p \in FailedEncodes :
        /\ p = Len(procs)
        /\ pc = "aborted"
        /\ status = "nonzero"
        /\ RowsOf(procs[p].input, procs[p].k) = {}

\* an encoder has failed in a later configuration, rows having been written
C1_Witness ==
    \E p \in FailedEncodes : procs[p].k >= 2 /\ Len(results) >= 1 /\ pc = "aborted"

\* what the normalization of an input is asked to produce: rdtest asks for a
\* resolution and a pixel format (rdtest.py:262-275); rdimage asks for a
\* container only, which leaves the properties of the input
NormalizeTarget(input) ==
    IF prog = "rdtest"
    THEN Props(loc.ref_resolution, options.ref_pix_fmt)
    ELSE disk[input]

\* the probes of a property of a file that ran between processes a and b and
\* printed v
ProbesBetween(a, b, path, what, v) ==
    {r \in DOMAIN procs :
        /\ a < r /\ r < b
        /\ procs[r].stage = "probe" /\ procs[r].what = what /\ procs[r].src = path
        /\ procs[r].done /\ procs[r].out = v}

Normalizations(input) ==
    {p \in DOMAIN procs : procs[p].stage = "normalize" /\ procs[p].input = input}

\* C3: the transcode that produces the reference artifact of an input runs
\* once for that input, before any of its configurations is encoded, and
\* every quality comparison of that input is made against that artifact.
C3_ReferenceTranscodedOnce ==
    \A p \in DOMAIN procs :
        /\ procs[p].stage = "normalize" =>
              /\ Normalizations(procs[p].input) = {p}
              /\ \A q \in 1..(p - 1) :
                    ~(procs[q].stage = "encode" /\ procs[q].input = procs[p].input)
              /\ ~procs[p].done =>
                    {r \in Rows : ~r.header /\ r.orig = procs[p].input} = {}
        /\ procs[p].stage = "measure" =>
              \A q \in Normalizations(procs[p].input) : procs[p].ref = procs[q].dst

StageRank(stage) ==
    CASE stage = "encode"  -> 1
      [] stage = "decode"  -> 2
      [] stage = "rescale" -> 3
      [] stage = "measure" -> 4
      [] OTHER -> 0

Steps == {p \in DOMAIN procs : StageRank(procs[p].stage) > 0}

\* C6: within a configuration the steps run in the order encode, decode,
\* rescale, measure; a step is started only after the processes of the steps
\* before it have ended with exit code 0; only the last process started can
\* be running.
C6_StrictlySequential ==
    /\ Running \subseteq {Len(procs)}
    /\ \A q \in Steps :
          /\ \A p \in Steps :
                (p < q /\ SameConfig(p, q)) =>
                    /\ StageRank(procs[p].stage) <= StageRank(procs[q].stage)
                    /\ StageRank(procs[p].stage) < StageRank(procs[q].stage) =>
                          procs[p].done /\ procs[p].rc = 0
          /\ StageRank(procs[q].stage) > 1 =>
                \E p \in Steps :
                    p < q /\ SameConfig(p, q) /\ procs[p].stage = "encode"

\* the last measurement of a configuration runs after its encode, decode and
\* rescale
C6_Witness ==
    \E q \in Steps :
        /\ procs[q].what = "vmaf" /\ procs[q].k >= 2
        /\ \A stage \in {"encode", "decode", "rescale"} :
              \E p \in Steps : p < q /\ SameConfig(p, q) /\ procs[p].stage = stage

\* C7: an encode that reads the file a normalization transcode produced starts
\* only after the resolution and the pixel format of that file were probed,
\* after the transcode, and found equal to the targets.
C7_ReferenceCheckedBeforeEncode ==
    \A e \in DOMAIN procs :
        procs[e].stage = "encode" =>
            \A n \in Normalizations(procs[e].input) :
                (n < e /\ procs[n].dst = procs[e].src) =>
                    \A what \in {"res", "pix"} :
                        ProbesBetween(n, e, procs[e].src, what,
                                      NormalizeTarget(procs[e].input)[what]) # {}

\* C8: a quality metric is computed only on the artifact a rescale of the
\* same configuration produced, after the resolution and the pixel format of
\* that artifact were probed and found equal to the reference's.
C8_MeasuredOnCheckedRescale ==
    \A m \in DOMAIN procs :
        procs[m].stage = "measure" =>
            \E s \in 1..(m - 1) :
                /\ procs[s].stage = "rescale" /\ SameConfig(s, m)
                /\ procs[s].done /\ procs[s].rc = 0
                /\ procs[s].dst = procs[m].src
                /\ \A what \in {"res", "pix"} :
                      ProbesBetween(s, m, procs[m].src, what,
                                    NormalizeTarget(procs[m].input)[what]) # {}

\* the cleanup step of the configuration under way is over
AfterCleanup == pc \in {"row", "store"}

\* the level the cleanup option stands for: options.cleanup is False or True,
\* the integers 0 and 1 of Python
CleanupLevel == IF options.cleanup THEN 1 ELSE 0

Kept(path) == path \in DOMAIN disk

C10_CleanupAfterFailure ==
    (pc = "aborted" /\ options.cleanup) =>
        ~Kept(loc.art.dec) /\ ~Kept(loc.art.decs)
\* the reference files produced so far
References ==
    {procs[n].dst : n \in {p \in DOMAIN procs :
        procs[p].stage = "normalize" /\ procs[p].done /\ procs[p].rc = 0}}

\* C11: the cleanup never deletes the reference artifact: once produced, the
\* reference file of an input exists after any number of configurations, with
\* the cleanup on or off, and it is none of the encoded, decoded and rescaled
\* paths of a configuration.
C11_ReferenceSurvivesCleanup ==
    \A f \in References :
        /\ Kept(f)
        /\ f \notin {loc.art.enc, loc.art.dec, loc.art.decs}

\* a batch of rdtest with the cleanup on has ended after several
\* configurations and the reference is there
C11_Witness ==
    /\ prog = "rdtest" /\ pc = "done" /\ options.cleanup
    /\ Len(results) >= 2
    /\ References = {loc.ref_filename}
    /\ Kept(loc.ref_filename)
\* the inputs and the number of configurations of the sweep
SweepInputs == IF prog = "rdtest" THEN {options.infile} ELSE SeqRange(loc.infile_list)
SweepLen ==
    IF prog = "rdtest"
    THEN Len(options.codecs) * Len(rdtest_inner_sweep(options))
    ELSE Len(parameter_val_list)

\* the places of the result files that hold the row of configuration k of an
\* input
PlacesOf(table, input, k) ==
    {fi \in UNION {{<<f, i>> : i \in DOMAIN table[f]} : f \in DOMAIN table} :
        LET r == table[fi[1]][fi[2]]
        IN  ~r.header /\ r.orig = input /\ r.k = k}

InSweepOrder(rows) ==
    \A i, j \in DOMAIN rows :
        (i < j /\ ~rows[i].header /\ ~rows[j].header) =>
            \/ rows[i].orig # rows[j].orig
            \/ rows[i].k < rows[j].k

\* C12: after a batch that ends without error the result files hold exactly
\* one row per input and configuration of the sweep, in sweep order; and at
\* every step the rows a result file holds stay as they are, new rows coming
\* after them.
C12_OneRowPerConfigurationAppendOnly ==
    [][/\ pc' = "done" =>
            /\ \A input \in SweepInputs' : \A k \in 1..SweepLen' :
                  Cardinality(PlacesOf(csv', input, k)) = 1
            /\ \A f \in DOMAIN csv' : InSweepOrder(csv'[f])
       /\ \A f \in DOMAIN csv :
            /\ f \in DOMAIN csv'
            /\ Len(csv'[f]) >= Len(csv[f])
            /\ SubSeq(csv'[f], 1, Len(csv[f])) = csv[f]]_vars
\* line.split(sep): the delimited fields of a line
RECURSIVE split(_, _)
split(line, sep) ==
    IF ~Contains(line, sep) THEN <<line>>
    ELSE LET i == CHOOSE n \in 1..Len(line) :
                     /\ CharAt(line, n) = sep
                     /\ \A m \in 1..(n - 1) : CharAt(line, m) # sep
         IN  <<SubSeq(line, 1, i - 1)>> \o split(SubSeq(line, i + 1, Len(line)), sep)

\* the place of a column among the names of a header
Column(names, name) == CHOOSE n \in DOMAIN names : names[n] = name

\* C13: a result file starts with one header row that names the columns;
\* every data row has as many delimited fields as the header has names, the
\* field under codec is the codec of the row and the fields under psnr, ssim
\* and vmaf hold one scalar score each.
C13_RowsMatchHeader ==
    \A f \in DOMAIN csv :
        /\ csv[f] # <<>> /\ csv[f][1].header
        /\ \A i \in 2..Len(csv[f]) :
              LET names  == split(csv[f][1].line, ",")
                  row    == csv[f][i]
                  fields == split(row.line, ",")
              IN  /\ ~row.header
                  /\ Len(fields) = Len(names)
                  /\ fields[Column(names, "codec")] = row.cfg[1]
                  /\ \A m \in {"psnr", "ssim", "vmaf"} :
                        fields[Column(names, m)] = score
\* the probe queries that ended with a non-zero exit code or printed nothing
\* that can be parsed
FailedProbes ==
    {p \in DOMAIN procs :
        /\ procs[p].stage = "probe" /\ procs[p].done
        /\ (procs[p].rc # 0 \/ procs[p].out = "")}

\* what the query of the script under way gave its caller for process p
ProbeResult(p) ==
    IF prog = "rdtest" THEN rdtest_ffprobe_run(procs[p].rc, procs[p].out)
    ELSE utils_ffprobe_run(procs[p].rc, procs[p].out)

\* C15: a probe query whose process exits non-zero, or whose output cannot
\* be parsed, raises an error: it gives no value to its caller
C15_ProbeFailureRaises ==
    \A p \in FailedProbes : ProbeResult(p).raised

\* the probes that validate an input file before the sweep (rdtest.py:259-260,
\* rdimage.py:112-120) and found it is not media
FailedValidations ==
    {p \in DOMAIN procs :
        /\ procs[p].step \in {"in_res", "in_fr", "glob"} /\ procs[p].done
        /\ (procs[p].rc # 0 \/ procs[p].out = "")}

\* C16: an input file that fails validation (it cannot be read, or the probe
\* does not recognise it as media) ends the whole batch there: no process is
\* started after the failed probe, so no encode, and the batch does not go on
\* without the input
C16_InvalidInputIsFatal ==
    /\ \A p \in FailedValidations : p = Len(procs) /\ pc = "aborted"
    /\ (prog = "rdtest" /\ options.infile \notin DOMAIN disk /\ pc # "start")
           => (pc = "aborted" /\ procs = <<>>)

\* the comparisons that ended with a non-zero exit code or printed nothing
\* the parser finds a score in
FailedMeasures ==
    {p \in DOMAIN procs :
        /\ procs[p].stage = "measure" /\ procs[p].done
        /\ (procs[p].rc # 0 \/ procs[p].out = "")}

\* C17: when a quality comparison fails, or prints nothing that can be parsed,
\* the measurement raises: the run ends at that comparison and no score of it
\* is taken
C17_MeasureFailureRaises ==
    \A p \in FailedMeasures : p = Len(procs) /\ pc = "aborted"

---------------------------------------------------------------------------
(* The process runners: Command.Run of rdtest.py and run of utils.py      *)

\* Bytes are numbers 0..255; a str is the sequence of its code points.
\* str.strip() removes these from both ends of an ASCII str
Whitespace == {9, 10, 11, 12, 13, 28, 29, 30, 31, 32}

RECURSIVE lstrip(_)
lstrip(text) ==
    IF text # <<>> /\ Head(text) \in Whitespace THEN lstrip(Tail(text)) ELSE text

RECURSIVE rstrip(_)
rstrip(text) ==
    IF text # <<>> /\ text[Len(text)] \in Whitespace
    THEN rstrip(SubSeq(text, 1, Len(text) - 1))
    ELSE text

strip(text) == rstrip(lstrip(text))

\* bytes.decode('ascii') raises UnicodeDecodeError on a byte above 127
decodable(bytes) == \A i \in DOMAIN bytes : bytes[i] < 128

\* what a call ends with: an exception, or the values returned
Raised == [raised |-> TRUE, retcode |-> 0, stdout |-> <<>>, stderr |-> <<>>]
Returned(retcode, stdout, stderr) ==
    [raised |-> FALSE, retcode |-> retcode, stdout |-> stdout, stderr |-> stderr]

\* the text of the message Command.Run returns when Popen raises
popen_error == <<69, 114, 114, 111, 114>>

\* rdtest.py:170-197: spawned is whether subprocess.Popen returned; retcode,
\* stdout and stderr are what the process ended with
Command_Run(spawned, retcode, stdout, stderr) ==
    IF ~spawned THEN Returned(0 - 1, <<>>, popen_error)
    ELSE IF ~decodable(stdout) \/ ~decodable(stderr) THEN Raised
    ELSE Returned(retcode, strip(stdout), strip(stderr))

\* utils.py:45-93: the exception of subprocess.Popen is not caught; the
\* output is returned as bytes
run(spawned, retcode, stdout, stderr) ==
    IF ~spawned THEN Raised
    ELSE Returned(retcode, stdout, stderr)

\* the exit codes and outputs the runners are called with: success, failures,
\* a signal; nothing, text, text within white space, a non-ASCII character
RunRetCodes == {0, 1, 255, 0 - 9}
RunOutputs == {<<>>, <<111, 107>>, <<32, 111, 107, 10>>, <<195, 169>>}

RunInit ==
    /\ prog \in {"rdtest", "rdimage"}
    /\ options \in [spawned : BOOLEAN, retcode : RunRetCodes,
                    stdout : RunOutputs, stderr : RunOutputs]
    /\ pc = "run"
    /\ procs = <<>>
    /\ disk = <<>>
    /\ loc = NoLoc
    /\ results = <<>>
    /\ csv = <<>>
    /\ status = "none"
    /\ parameter_name_list = <<>>
    /\ parameter_val_list = <<>>
    /\ artifacts = <<>>
    /\ run2 = <<>>

\* rdtest.py:170-197
call_Command_Run ==
    /\ prog = "rdtest" /\ pc = "run"
    /\ results' = <<Command_Run(options.spawned, options.retcode,
                                options.stdout, options.stderr)>>
    /\ pc' = "returned"
    /\ UNCHANGED <<prog, options, procs, disk, loc, csv, status,
                   parameter_name_list, parameter_val_list, artifacts, run2>>

\* utils.py:45-93
call_run ==
    /\ prog = "rdimage" /\ pc = "run"
    /\ results' = <<run(options.spawned, options.retcode,
                        options.stdout, options.stderr)>>
    /\ pc' = "returned"
    /\ UNCHANGED <<prog, options, procs, disk, loc, csv, status,
                   parameter_name_list, parameter_val_list, artifacts, run2>>

RunNext == call_Command_Run \/ call_run

SpecRun == RunInit /\ [][RunNext]_vars

\* the returned text is the captured one, as it is or without the white
\* space around it
Carries(text, captured) == text = captured \/ text = strip(captured)

\* C14: whatever exit code the process ends with and whatever it printed,
\* the runner returns: the result holds that exit code and the captured
\* stdout and stderr; no exception is raised.
C14_RunnerReturnsExitCode ==
    (pc = "returned" /\ options.spawned) =>
        /\ ~results[1].raised
        /\ results[1].retcode = options.retcode
        /\ Carries(results[1].stdout, options.stdout)
        /\ Carries(results[1].stderr, options.stderr)

---------------------------------------------------------------------------
(* The summaries of the per-frame scores: utils.py parse_psnr_log,         *)
(* parse_ssim_log and parse_vmaf_output                                    *)

\* the per-frame scores the summaries are checked for
FrameScores == {10, 20, 30, 40}
\* the most frames a log holds
MaxFrames == 4

\* a float, kept as an exact fraction
Number(num, den) == [num |-> num, den |-> den]

\* the order statistics of a list
RECURSIVE sorted(_)
sorted(a) ==
    IF a = <<>> THEN <<>>
    ELSE LET m == CHOOSE i \in DOMAIN a : \A j \in DOMAIN a : a[i] <= a[j]
         IN  <<a[m]>> \o sorted(SubSeq(a, 1, m - 1) \o SubSeq(a, m + 1, Len(a)))

RECURSIVE sum(_)
sum(a) == IF a = <<>> THEN 0 ELSE Head(a) + sum(Tail(a))

\* numpy.ndarray.mean
mean(a) == Number(sum(a), Len(a))

\* numpy.percentile with method='lower'
percentile_lower(a, q) ==
    Number(sorted(a)[(q * (Len(a) - 1)) \div 100 + 1] * 100, 100)

\* numpy.percentile(a, q) as utils.py:185, 191, 197 call it (method='linear'):
\* the virtual index q / 100 * (n - 1) is split in its floor and its
\* fraction gamma, and the result is a[floor] + gamma * (a[floor + 1] - a[floor])
percentile(a, q) ==
    LET n        == Len(a)
        previous == (q * (n - 1)) \div 100
        gamma    == (q * (n - 1)) % 100
        next     == IF previous + 1 < n THEN previous + 1 ELSE n - 1
    IN  Number(sorted(a)[previous + 1] * 100
                 + gamma * (sorted(a)[next + 1] - sorted(a)[previous + 1]), 100)

\* utils.py:182-200: the entries f"{prefix}p{percentile}" of a summary
percentiles(prefix, a) ==
    [i \in DOMAIN PERCENTILE_LIST |->
        <<percentile_keys(prefix)[i], percentile(a, PERCENTILE_LIST[i])>>]

\* one plane of the frames of a log
plane(frames, name) == [i \in DOMAIN frames |-> frames[i][name]]

\* utils.py:161-201 and 225-265: the dict is the list of its items, in the
\* order they are set
parse_log(frames) ==
    <<<<"y_mean", mean(plane(frames, "y"))>>,
      <<"u_mean", mean(plane(frames, "u"))>>,
      <<"v_mean", mean(plane(frames, "v"))>>>>
        \o percentiles("y_", plane(frames, "y"))
        \o percentiles("u_", plane(frames, "u"))
        \o percentiles("v_", plane(frames, "v"))

\* utils.py:313-332: the pooled means are copied, the percentiles are those
\* of the per-frame vmaf
parse_vmaf(data) ==
    <<<<"mean", data.pooled.mean>>, <<"harmonic_mean", data.pooled.harmonic_mean>>>>
        \o percentiles("", plane(data.frames, "y"))

\* the logs the summaries are checked for: every list of at most MaxFrames
\* scores for the first plane; the second plane holds them backwards
StatsInit ==
    /\ prog = "rdimage"
    /\ \E ys \in Lists(FrameScores, MaxFrames), v \in FrameScores :
          options = [frames |-> [i \in DOMAIN ys |->
                                    [y |-> ys[i], u |-> ys[Len(ys) + 1 - i], v |-> v]],
                     pooled |-> [mean |-> Number(25, 1), harmonic_mean |-> Number(24, 1)]]
    /\ pc = "log"
    /\ procs = <<>>
    /\ disk = <<>>
    /\ loc = NoLoc
    /\ results = <<>>
    /\ csv = <<>>
    /\ status = "none"
    /\ parameter_name_list = <<>>
    /\ parameter_val_list = <<>>
    /\ artifacts = <<>>
    /\ run2 = <<>>

Summary(metric, dict) == [metric |-> metric, dict |-> dict]

\* utils.py:161-201
parse_psnr_log ==
    /\ pc = "log"
    /\ results' = <<Summary("psnr", parse_log(options.frames))>>
    /\ pc' = "parsed"
    /\ UNCHANGED <<prog, options, procs, disk, loc, csv, status,
                   parameter_name_list, parameter_val_list, artifacts, run2>>

\* utils.py:225-265
parse_ssim_log ==
    /\ pc = "log"
    /\ results' = <<Summary("ssim", parse_log(options.frames))>>
    /\ pc' = "parsed"
    /\ UNCHANGED <<prog, options, procs, disk, loc, csv, status,
                   parameter_name_list, parameter_val_list, artifacts, run2>>

\* utils.py:313-332
parse_vmaf_output ==
    /\ pc = "log"
    /\ results' = <<Summary("vmaf", parse_vmaf(options))>>
    /\ pc' = "parsed"
    /\ UNCHANGED <<prog, options, procs, disk, loc, csv, status,
                   parameter_name_list, parameter_val_list, artifacts, run2>>

StatsNext == parse_psnr_log \/ parse_ssim_log \/ parse_vmaf_output

SpecStats == StatsInit /\ [][StatsNext]_vars

\* the values a summary holds under a key
Values(dict, key) == {dict[i][2] : i \in {j \in DOMAIN dict : dict[j][1] = key}}

\* the planes a summary is about: the prefix of their keys and their scores
Planes(metric) ==
    IF metric = "vmaf" THEN {<<"", plane(options.frames, "y")>>}
    ELSE {<<"y_", plane(options.frames, "y")>>, <<"u_", plane(options.frames, "u")>>,
          <<"v_", plane(options.frames, "v")>>}

\* C18: the summary of every metric holds, for each plane, the percentiles 0,
\* 5, 10, 25, 75, 90, 95 and 100, each the linear interpolation between the
\* two order statistics next to rank p / 100 * (n - 1): the 0th is the
\* minimum and the 100th the maximum, and for the scores 10, 20, 30, 40 the
\* 0th is 10, the 100th is 40 and the 50th is 25
C18_PercentilesInterpolate ==
    pc = "parsed" =>
        \A pl \in Planes(results[1].metric) :
            LET d == results[1].dict
                s == sorted(pl[2])
                n == Len(s)
                at(q) == Values(d, pl[1] \o "p" \o ToString(q))
            IN  /\ \A q \in {0, 5, 10, 25, 75, 90, 95, 100} :
                      LET lo == (q * (n - 1)) \div 100
                          hi == IF (q * (n - 1)) % 100 = 0 THEN lo ELSE lo + 1
                      IN  \E v \in at(q) :
                             /\ at(q) = {v}
                             /\ v.den = 100
                             /\ v.num = 100 * s[lo + 1]
                                   + (q * (n - 1) - 100 * lo) * (s[hi + 1] - s[lo + 1])
                             /\ 100 * s[lo + 1] <= v.num /\ v.num <= 100 * s[hi + 1]
                /\ at(0) = {Number(100 * s[1], 100)}
                /\ at(100) = {Number(100 * s[n], 100)}
                /\ s = <<10, 20, 30, 40>> =>
                      /\ at(0) = {Number(1000, 100)}
                      /\ at(100) = {Number(4000, 100)}
                      /\ percentile(pl[2], 50) = Number(2500, 100)

\* the summary of the scores 10, 20, 30, 40 logged in another order
C18_Witness ==
    /\ pc = "parsed"
    /\ results[1].metric = "psnr"
    /\ plane(options.frames, "y") = <<30, 10, 40, 20>>
    /\ Values(results[1].dict, "y_p25") = {Number(1750, 100)}

---------------------------------------------------------------------------
(* The encode command of rdtest.py: run_single_enc and get_lcevc_enc_parms *)

\* rdtest.py:120
gop_length_frames == "600"

\* int() of a string of digits
RECURSIVE int(_)
int(text) ==
    IF text = "" THEN 0
    ELSE int(SubSeq(text, 1, Len(text) - 1)) * 10
            + (CHOOSE d \in 0..9 : ToString(d) = SubSeq(text, Len(text), Len(text)))

\* the list of strings a function builds, or the exception it raises
Built_parms(parms) == [raised |-> FALSE, parms |-> parms]
Unbound == [raised |-> TRUE, parms |-> <<>>]

\* rdtest.py:392-440, LCEVC_ENC_DIR not set: mode is assigned under
\* rcmode == 'cbr' only; the two AssertionError are built and not raised, so
\* with another rcmode line 438 reads mode unassigned (UnboundLocalError)
get_lcevc_enc_parms(resolution, bitrate, rcmode, gop) ==
    IF rcmode = "cbr"
    THEN Built_parms(<<"-c:v", "pplusenc_x264", "-base_encoder", "x264", "-bf", "0",
                       "-preset", "medium", "-eil_params",
                       "preset=medium;" \o "bitrate=" \o ToString(int(bitrate) - 13) \o ";"
                           \o "encoding_upsample=cubic;" \o "rc_pcrf_ipp_mode=1;",
                       "-s", resolution, "-g", gop>>)
    ELSE Unbound

\* rdtest.py:459-475: the parameters of the codecs ffmpeg encodes with
ffmpeg_enc_parms(codec, resolution, bitrate, rcmode, gop) ==
    LET codecname == rdtest_CODEC_INFO[codec].codecname
        ps        == rdtest_CODEC_INFO[codec].parameters
    IN  <<"-c:v", codecname,
          "-maxrate", bitrate \o "k", "-minrate", bitrate \o "k", "-b:v", bitrate \o "k">>
        \o (IF codecname \in {"libx264", "libx265"} THEN <<"-bf", "0">> ELSE <<>>)
        \o (IF codecname \in {"libx264", "libopenh264", "libx265"}
            THEN <<"-bufsize", ToString(int(bitrate) * 2)>> ELSE <<>>)
        \o <<"-s", resolution, "-g", gop>>
        \o Concat([i \in DOMAIN ps |-> <<"-" \o ps[i][1], ps[i][2]>>])
        \o (IF codecname = "libaom-av1" THEN <<"-strict", "experimental">> ELSE <<>>)

Atoms(strings) == [i \in DOMAIN strings |-> Atom(strings[i])]

\* rdtest.py:448-480: cmd, a list of Python values: the parameters of lcevc
\* are appended as one element, a list (enc_parms.append)
enc_cmd(in_filename, outfile, codec, resolution, bitrate, rcmode, gop) ==
    LET lcevc == get_lcevc_enc_parms(resolution, bitrate, rcmode, gop)
        front == Atoms(<<"ffmpeg", "-y", "-i", in_filename>>)
        back  == Atoms(<<"-c:a", "copy", outfile>>)
    IN  IF rdtest_CODEC_INFO[codec].codecname = "pplusenc_x264"
        THEN IF lcevc.raised THEN Unbound
             ELSE Built_parms(front \o <<List(Atoms(lcevc.parms))>> \o back)
        ELSE Built_parms(front
                \o Atoms(ffmpeg_enc_parms(codec, resolution, bitrate, rcmode, gop))
                \o back)

\* subprocess.Popen takes a list of strings: with a list in it Popen raises
\* TypeError, and so does Cmd2Str in the handler of Command.Run (rdtest.py:179,
\* 204-205)
runnable(cmd) == \A i \in DOMAIN cmd : ~cmd[i].isl

\* the calls of run_single_enc the command is checked for: every codec of the
\* registry and every bitrate, the rcmodes get_options lets through
\* (rdtest.py:692-696: those of RCMODES), and the exit code of the encoder
EncInit ==
    /\ prog = "rdtest"
    /\ options \in [codec : SeqRange(rdtest_CODEC_KEYS),
                    resolution : SeqRange(SubSeq(RESOLUTIONS, 1, MaxVals)),
                    bitrate : SeqRange(BITRATES),
                    rcmode : SeqRange(RCMODES),
                    retcode : RetCodes]
    /\ pc = "run_single_enc"
    /\ procs = <<>>
    /\ disk = <<>>
    /\ loc = NoLoc
    /\ results = <<>>
    /\ csv = <<>>
    /\ status = "none"
    /\ parameter_name_list = <<>>
    /\ parameter_val_list = <<>>
    /\ artifacts = <<>>
    /\ run2 = <<>>

\* rdtest.py:443-488: the command is built and run, and its exit code asserted
call_run_single_enc ==
    /\ pc = "run_single_enc"
    /\ LET c == enc_cmd("/tmp/ref.y4m", "/tmp/enc.mp4", options.codec,
                        options.resolution, options.bitrate, options.rcmode,
                        gop_length_frames)
       IN  results' = <<[cmd |-> c.parms,
                         raised |-> \/ c.raised
                                    \/ ~runnable(c.parms)
                                    \/ ~enc_assert(options.retcode)]>>
    /\ pc' = "encoded"
    /\ UNCHANGED <<prog, options, procs, disk, loc, csv, status,
                   parameter_name_list, parameter_val_list, artifacts, run2>>

EncNext == call_run_single_enc

SpecEnc == EncInit /\ [][EncNext]_vars

\* the flags of ffmpeg that set a bitrate, and those that set a constant quality
BitrateFlags == {"-b:v", "-maxrate", "-minrate"}
QualityFlags == {"-crf", "-qp", "-q:v", "-cq"}

\* the strings of the command
Flags(cmd) == {cmd[i].a : i \in {j \in DOMAIN cmd : ~cmd[j].isl}}

---------------------------------------------------------------------------
(* The file the quality measurement is handed                              *)

MeasureProcs == {p \in DOMAIN procs : procs[p].stage = "measure"}

\* the processes of a stage that ended with exit code 0 before process m, in
\* the configuration of m
Succeeded(stage, m) ==
    {p \in 1..(m - 1) :
        /\ procs[p].stage = stage /\ SameConfig(p, m)
        /\ procs[p].done /\ procs[p].rc = 0}

\* the decodes before m that read what a successful encode wrote
Decodes(m) ==
    {d \in Succeeded("decode", m) :
        \E e \in Succeeded("encode", d) : procs[e].dst = procs[d].src}

\* the raw files the decoded artifact was rendered into before m: what the
\* decoder wrote, and what a rescale of it wrote
Rendered(m) ==
    {procs[d].dst : d \in Decodes(m)}
        \cup {procs[r].dst : r \in {q \in Succeeded("rescale", m) :
                                      \E d \in Decodes(q) : procs[d].dst = procs[q].src}}

\* the encoded artifacts of the configuration of m
Encoded(m) == {procs[e].dst : e \in Succeeded("encode", m)}

\* whether the codec of the configuration of process m is decoded by a
\* command of its own: every codec of rdtest.py, and those of rdimage.py that
\* declare a decode_command
HasDecodeCommand(m) ==
    \/ prog = "rdtest"
    \/ rdimage_CODEC_INFO[parameter_val_list[procs[m].k][1]].decode_command # None

\* C20 as stated: every comparison is handed a raw file the decoded artifact
\* was rendered into after a successful encode, never the encoded artifact
C20_AlwaysDecoded ==
    \A m \in MeasureProcs :
        procs[m].src \in Rendered(m) /\ procs[m].src \notin Encoded(m)

\* C20, amended: every decode reads what a successful encode wrote.  For a
\* codec with a decode command (all of rdtest.py; of rdimage.py those of the
\* registry that declare one) the comparison is handed a raw file the decoded
\* artifact was rendered into, never the encoded artifact; for a codec of
\* rdimage.py without a decode command there is no decode step and the
\* comparison is handed the encoded artifact itself.
C20_DecodedWhereDeclared ==
    /\ \A d \in {p \in DOMAIN procs : procs[p].stage = "decode"} :
          \E e \in Succeeded("encode", d) : procs[e].dst = procs[d].src
    /\ \A m \in MeasureProcs :
          IF HasDecodeCommand(m)
          THEN procs[m].src \in Rendered(m) /\ procs[m].src \notin Encoded(m)
          ELSE /\ procs[m].src \in Encoded(m)
               /\ ~\E d \in 1..(m - 1) : procs[d].stage = "decode" /\ SameConfig(d, m)
    /\ \A codec \in SeqRange(rdimage_CODEC_KEYS) :
          (rdimage_distorted_infile("/tmp/a.enc", codec) = "/tmp/a.enc")
              <=> (rdimage_CODEC_INFO[codec].decode_command = None)

\* a codec without a decode command is measured on its encoded artifact,
\* after a codec with one was decoded and measured
C20_Witness ==
    /\ prog = "rdimage"
    /\ \E r \in SeqRange(results) :
          rdimage_CODEC_INFO[r.cfg[1]].decode_command # None
    /\ \E m \in MeasureProcs :
          /\ procs[m].done /\ procs[m].what = "vmaf" /\ procs[m].rc = 0
          /\ ~HasDecodeCommand(m)
          /\ procs[m].src = loc.art.enc

---------------------------------------------------------------------------
(* The two ways to a VMAF score                                            *)

\* the ffmpeg -filters queries that succeeded
Queries == {q \in DOMAIN procs : procs[q].stage = "query" /\ procs[q].done /\ procs[q].rc = 0}

VmafProcs == {m \in MeasureProcs : procs[m].what = "vmaf"}

\* C21 as stated: the VMAF is computed by the filter when ffmpeg lists it and
\* by the standalone scorer otherwise, and a batch whose ffmpeg does not list
\* the filter still goes on to a VMAF score
C21_VmafFallback ==
    /\ \A m \in VmafProcs :
          procs[m].via = (IF loc.libvmaf THEN "libvmaf" ELSE "run_vmaf")
    /\ \A q \in Queries :
          procs[q].out = "" => ~(q = Len(procs) /\ pc = "aborted")

\* C21, amended: in rdtest.py every VMAF follows the query of its own
\* configuration and is computed by the filter when the query listed libvmaf,
\* by run_vmaf otherwise; either way a score that is printed is taken the same
\* way and the run goes on.  In rdimage.py the one query is made before any
\* input is probed: when it does not list libvmaf the batch ends there, and
\* every VMAF is computed by the filter.
C21_VmafFallbackInRdtestOnly ==
    /\ prog = "rdtest" =>
          /\ \A m \in VmafProcs :
                /\ m - 1 \in Queries /\ SameConfig(m - 1, m)
                /\ procs[m].via = (IF procs[m - 1].out = "libvmaf"
                                   THEN "libvmaf" ELSE "run_vmaf")
                /\ (procs[m].done /\ procs[m].rc = 0 /\ procs[m].out = score)
                      => (pc # "aborted" \/ m # Len(procs))
          /\ \A q \in Queries : ~(q = Len(procs) /\ pc = "aborted")
    /\ prog = "rdimage" =>
          /\ \A m \in VmafProcs : procs[m].via = "libvmaf" /\ loc.libvmaf
          /\ \A q \in Queries :
                /\ q = 1
                /\ procs[q].out = "" => (Len(procs) = 1 /\ pc = "aborted")

\* a row was written and the next VMAF was scored by run_vmaf
C21_Witness ==
    /\ prog = "rdtest"
    /\ results # <<>>
    /\ pc = "bitrate"
    /\ \E m \in VmafProcs :
          procs[m].via = "run_vmaf" /\ procs[m].done /\ procs[m].out = score

---------------------------------------------------------------------------
(* The command line: get_options and main of rdtest.py and rdimage.py      *)

\* the most tokens given to one option
MaxArgs == 2

\* the tokens each list option of rdtest.py is checked with
rdtest_tokens ==
    [codecs      |-> {"x264", "h264", "x264,vp8"},
     resolutions |-> {"640x360", "x", "640x", "axb", "1x2x3", "640"},
     bitrates    |-> {"560", "fast", "560 280"},
     rcmodes     |-> {"cbr", "crf"}]

\* rdtest.py:113-127: what an option holds when it is not given
rdtest_default_options ==
    [codecs |-> rdtest_CODEC_KEYS, resolutions |-> RESOLUTIONS,
     bitrates |-> BITRATES, rcmodes |-> RCMODES]

\* the tokens each list option of rdimage.py is checked with
rdimage_tokens ==
    [codecs       |-> {"jxl/libjxl", "webp", "jxl/libjxl,avif/svt"},
     jpeg_quality |-> {"50", "high"},
     jxl_quality  |-> {"50", "best"},
     heic_quality |-> {"50", "q"},
     heic_preset  |-> {"medium", "turbo", "fast slow"},
     avif_speed   |-> {"4", "quick"}]

\* rdimage.py:76-91: the codecs not given are all those of the registry
rdimage_default_options == [rdimage_base_options EXCEPT !.codecs = rdimage_CODEC_KEYS]

\* rdtest.py:667-673, rdimage.py:377-389: one token holding ',' or ' ' is a list
split_list(value) ==
    LET byComma == IF Len(value) = 1 /\ Contains(value[1], ",")
                   THEN split(value[1], ",") ELSE value
    IN  IF Len(byComma) = 1 /\ Contains(byComma[1], " ")
        THEN split(byComma[1], " ") ELSE byComma

\* str.isnumeric() of a string of ASCII characters
isnumeric(text) ==
    /\ text # ""
    /\ \A n \in 1..Len(text) : \E d \in 0..9 : CharAt(text, n) = ToString(d)

\* a membership check that lets every name through
all_in_unchecked(values, allowed) == TRUE

\* rdtest.py:675, 692, rdimage.py:391, 401: all(c in allowed for c in values)
all_in(values, allowed) == \A n \in DOMAIN values : values[n] \in SeqRange(allowed)

\* rdtest.py:674-696: whether get_options returns (it exits with -1 otherwise)
rdtest_valid(opts) ==
    /\ all_in(opts.codecs, rdtest_CODEC_KEYS)
    /\ \A n \in DOMAIN opts.resolutions : Contains(opts.resolutions[n], "x")
    /\ \A n \in DOMAIN opts.bitrates : isnumeric(opts.bitrates[n])
    /\ all_in(opts.rcmodes, RCMODES)

\* rdimage.py:390-409: whether get_options returns
rdimage_valid(opts) ==
    /\ all_in(opts.codecs, rdimage_CODEC_KEYS)
    /\ all_in(opts.heic_preset, HEIC_PRESET_LIST)

\* the command lines: one list option is given, with at most MaxArgs tokens
OptsInit ==
    /\ prog \in {"rdtest", "rdimage"}
    /\ LET tokens   == IF prog = "rdtest" THEN rdtest_tokens ELSE rdimage_tokens
           defaults == IF prog = "rdtest" THEN rdtest_default_options
                       ELSE rdimage_default_options
       IN  \E field \in DOMAIN tokens : \E given \in Lists(tokens[field], MaxArgs) :
              options = [defaults EXCEPT ![field] = given]
    /\ pc = "main"
    /\ procs = <<>>
    /\ disk = <<>>
    /\ loc = NoLoc
    /\ results = <<>>
    /\ csv = <<>>
    /\ status = "none"
    /\ parameter_name_list = <<>>
    /\ parameter_val_list = <<>>
    /\ artifacts = <<>>
    /\ run2 = <<>>

\* rdtest.py:700-710 with 665-697 and 286-298: the options are parsed and
\* checked; run_experiment sweeps what was accepted
rdtest_main ==
    /\ prog = "rdtest" /\ pc = "main"
    /\ LET opts == [f \in DOMAIN options |-> split_list(options[f])]
       IN  /\ options' = opts
           /\ IF rdtest_valid(opts)
              THEN /\ pc' = "run_experiment"
                   /\ parameter_val_list' = rdtest_sweep(opts)
                   /\ UNCHANGED status
              ELSE /\ pc' = "exit"
                   /\ status' = "nonzero"
                   /\ UNCHANGED parameter_val_list
    /\ UNCHANGED <<prog, procs, disk, loc, results, csv,
                   parameter_name_list, artifacts, run2>>

\* rdimage.py:413-423 with 376-410 and 123-146
rdimage_main ==
    /\ prog = "rdimage" /\ pc = "main"
    /\ LET opts == [f \in DOMAIN options |->
                       IF f \in DOMAIN rdimage_tokens THEN split_list(options[f])
                       ELSE options[f]]
       IN  /\ options' = opts
           /\ IF rdimage_valid(opts)
              THEN /\ pc' = "run_experiment"
                   /\ \E o \in pipeline_orders :
                         /\ parameter_name_list' = <<"codec">> \o o
                         /\ parameter_val_list' =
                               rdimage_parameter_val_list(opts, <<"codec">> \o o)
                   /\ UNCHANGED status
              ELSE /\ pc' = "exit"
                   /\ status' = "nonzero"
                   /\ UNCHANGED <<parameter_name_list, parameter_val_list>>
    /\ UNCHANGED <<prog, procs, disk, loc, results, csv, artifacts, run2>>

OptsNext == rdtest_main \/ rdimage_main

SpecOpts == OptsInit /\ [][OptsNext]_vars

\* a resolution is a positive integer, one separator, a positive integer
WellFormedResolution(text) ==
    LET parts == split(text, "x")
    IN  /\ Len(parts) = 2
        /\ \A n \in 1..2 : isnumeric(parts[n]) /\ int(parts[n]) > 0

\* C22: every resolution that is not one separator between a positive width
\* and a positive height is rejected before any process runs: only
\* well-formed resolutions are swept
C22_ResolutionsWellFormed ==
    /\ (prog = "rdtest" /\ pc = "run_experiment") =>
          \A n \in DOMAIN parameter_val_list :
              WellFormedResolution(parameter_val_list[n][2])
    /\ pc = "exit" => procs = <<>>

\* the axes of rdimage.py that hold a rate, a quality or a speed
NumericAxes == {"jpeg_quality", "jxl_quality", "heic_quality", "avif_speed"}

\* C23: every bitrate, quality or speed that is not numeric is rejected before
\* any process runs: none is swept
C23_RatesNumeric ==
    /\ (prog = "rdtest" /\ pc = "run_experiment") =>
          \A n \in DOMAIN parameter_val_list : isnumeric(parameter_val_list[n][3])
    /\ (prog = "rdimage" /\ pc = "run_experiment") =>
          \A n \in DOMAIN parameter_val_list : \A a \in DOMAIN parameter_name_list :
              (parameter_name_list[a] \in NumericAxes /\ parameter_val_list[n][a] # "")
                  => isnumeric(parameter_val_list[n][a])
    /\ pc = "exit" => procs = <<>>

\* the registry of the script that runs
Registry == IF prog = "rdtest" THEN rdtest_CODEC_KEYS ELSE rdimage_CODEC_KEYS

\* the names on the command line, once split, that are not known: codecs out
\* of the registry and, for rdimage.py, presets out of HEIC_PRESET_LIST
Unknown(opts) ==
    ({opts.codecs[n] : n \in DOMAIN opts.codecs} \ SeqRange(Registry))
        \cup (IF prog = "rdimage"
              THEN {opts.heic_preset[n] : n \in DOMAIN opts.heic_preset}
                       \ SeqRange(HEIC_PRESET_LIST)
              ELSE {})

\* C24: a codec that is no key of the registry, or a preset that is not in
\* the declared list, makes get_options exit with a non-zero status before
\* any process runs; every codec that is swept is a key of the registry
C24_UnknownNamesRejected ==
    /\ (pc # "main" /\ Unknown(options) # {}) =>
          (pc = "exit" /\ status = "nonzero" /\ procs = <<>>
              /\ parameter_val_list = <<>>)
    /\ pc = "run_experiment" =>
          /\ parameter_val_list # <<>>
          /\ \A n \in DOMAIN parameter_val_list :
                parameter_val_list[n][1] \in SeqRange(Registry)
          /\ prog = "rdimage" =>
                \A n \in DOMAIN parameter_val_list : \A a \in DOMAIN parameter_name_list :
                    (parameter_name_list[a] = "heic_preset" /\ parameter_val_list[n][a] # "")
                        => parameter_val_list[n][a] \in SeqRange(HEIC_PRESET_LIST)

\* a command line naming a codec of the registry and one that is not was
\* turned down
C24_Witness ==
    /\ pc = "exit" /\ status = "nonzero"
    /\ options.codecs \in {<<"x264", "h264">>, <<"jxl/libjxl", "webp">>}

---------------------------------------------------------------------------
(* Path separators in the names of the artifacts                           *)

\* C25: a character that is unsafe in a path segment is replaced before the
\* name is put together: no basename made for an accepted configuration
\* holds a path separator
C25_NoSeparatorInBasename ==
    \A n \in DOMAIN artifacts :
        \A f \in {artifacts[n].enc, artifacts[n].dec, artifacts[n].decs} :
            /\ f = path_join(options.tmp_dir, basename(f))
            /\ Len(split(f, "/")) = Len(split(options.tmp_dir, "/"))

---------------------------------------------------------------------------
(* The same configuration run twice                                        *)

\* the paths of the artifacts of the configuration a row is about, as the
\* script names them (rdtest.py:535-561, rdimage.py:156-184, 206-210)
ArtifactsOf(row) ==
    LET art == IF prog = "rdtest"
               THEN rdtest_artifacts(options.tmp_dir, loc.ref_filename,
                                     loc.ref_resolution, row.cfg)
               ELSE rdimage_artifacts(options.tmp_dir, row.orig,
                                      parameter_name_list, row.cfg)
    IN  {art.enc, art.dec, art.decs}

\* the pairs of rows of one input and one configuration, run one after the other
Reruns ==
    {pair \in (DOMAIN results) \X (DOMAIN results) :
        /\ pair[1] < pair[2]
        /\ results[pair[1]].orig = results[pair[2]].orig
        /\ results[pair[1]].cfg = results[pair[2]].cfg}

\* C26: with the cleanup off, the same configuration run twice gives two rows
\* with the same configuration columns and two sets of artifacts with no
\* path in common
C26_RerunsIndependent ==
    ~options.cleanup =>
        \A pair \in Reruns :
            /\ SubSeq(split(results[pair[1]].line, ","), 1, 5)
                  = SubSeq(split(results[pair[2]].line, ","), 1, 5)
            /\ ArtifactsOf(results[pair[1]]) \cap ArtifactsOf(results[pair[2]]) = {}

---------------------------------------------------------------------------
(* The shape of the encode command                                         *)

\* C27: the command run_single_enc hands to Command.Run is a flat sequence of
\* strings for every codec of the registry: the tool, its arguments, the
\* output path last; no element of it is a list
C27_EncodeCommandIsFlat ==
    pc = "encoded" =>
        LET cmd == results[1].cmd
        IN  /\ cmd # <<>>
            /\ \A n \in DOMAIN cmd : ~cmd[n].isl
            /\ cmd[1] = Atom("ffmpeg")
            /\ cmd[Len(cmd)] = Atom("/tmp/enc.mp4")

---------------------------------------------------------------------------
(* The files of two tasks                                                  *)

\* the tasks of the batch: an input and the number of a configuration
Tasks ==
    IF prog = "rdtest"
    THEN {<<options.infile, k>> : k \in DOMAIN rdtest_sweep(options)}
    ELSE {<<loc.infile_list[i], k>> : i \in DOMAIN loc.infile_list,
                                      k \in DOMAIN parameter_val_list}

\* the paths task t writes, as the scripts name them: the converted input,
\* the encoded, decoded and rescaled artifacts and the logs of the metrics
Writes(t) ==
    IF prog = "rdtest"
    THEN LET art == rdtest_artifacts(options.tmp_dir, loc.ref_filename,
                                     loc.ref_resolution, rdtest_sweep(options)[t[2]])
         IN  {art.enc, art.dec, art.decs}
                 \cup (IF loc.libvmaf THEN {rdtest_vmaf_log} ELSE {})
    ELSE LET vals == parameter_val_list[t[2]]
             art  == rdimage_artifacts(options.tmp_dir, t[1], parameter_name_list, vals)
             i    == CHOOSE n \in DOMAIN loc.infile_list : loc.infile_list[n] = t[1]
             tag  == ToString(i) \o "_" \o ToString(t[2])
         IN  ({rdimage_infile(options.tmp_dir, t[1], vals[1])} \ {t[1]})
                 \cup {art.enc, art.dec}
                 \cup {"/tmp/psnr." \o tag \o ".log", "/tmp/ssim." \o tag \o ".log",
                       "/tmp/vmaf." \o tag \o ".json"}

\* C28: no file is written by two tasks: a path a process of one task writes
\* is a path no other task of the batch writes
C28_TaskFilesUnique ==
    \A p \in DOMAIN procs :
        (procs[p].k >= 1 /\ procs[p].dst # "") =>
            \A t \in Tasks \ {<<procs[p].input, procs[p].k>>} :
                procs[p].dst \notin Writes(t)

---------------------------------------------------------------------------
(* The files of two inputs                                                 *)

\* what glob finds (rdimage.py:112): inputs of distinct stems, two inputs of
\* one stem, and an input directory that is the temporary directory
Directories ==
    {<<"/in/a.png", "/in/b.ppm">>, <<"/in/a.png", "/in/a.ppm">>,
     <<"/tmp/a.png", "/tmp/a.ppm">>, <<"/tmp/a.png", "/tmp/b.ppm">>}

rdimage_dirs_options ==
    {[rdimage_base_options EXCEPT
        !.codecs = <<"jxl/libjxl">>,
        !.jxl_quality = SubSeq(<<"10", "30", "50">>, 1, MaxVals)] @@
      [indir |-> d, outfile |-> "/out/rd.csv"] :
        d \in Directories}

DirsInit ==
    /\ prog = "rdimage"
    /\ options \in rdimage_dirs_options
    /\ disk = [q \in SeqRange(options.indir) |-> in_props]
    /\ pc = "check_software"
    /\ procs = <<>>
    /\ loc = InitLoc
    /\ results = <<>>
    /\ csv = EmptyDisk
    /\ status = "none"
    /\ parameter_name_list = <<>>
    /\ parameter_val_list = <<>>
    /\ artifacts = <<>>
    /\ run2 = <<>>

DirsNext == Popen \/ rdimage_next

SpecDirs == DirsInit /\ [][DirsNext]_vars

\* C29: a path written for one input is none of the inputs found in the input
\* directory and none of the paths written for another input
C29_InputsKeptApart ==
    \A p \in DOMAIN procs :
        (procs[p].k >= 1 /\ procs[p].dst # "") =>
            /\ procs[p].dst \notin SeqRange(loc.infile_list)
            /\ \A t \in Tasks :
                  t[1] # procs[p].input => procs[p].dst \notin Writes(t)

---------------------------------------------------------------------------
(* The result file of a batch that fails                                   *)

\* the batch has ended on the failure of a step of a configuration
AbortedInSweep ==
    /\ pc = "aborted"
    /\ procs # <<>>
    /\ procs[Len(procs)].k >= 1

\* C30: when a configuration fails, the result files hold a header and
\* exactly the rows of the configurations completed before it, each once and
\* in sweep order
C30_CompletedRowsOnDisk ==
    AbortedInSweep =>
        /\ DOMAIN csv # {}
        /\ \A f \in DOMAIN csv :
              /\ csv[f] # <<>>
              /\ csv[f][1].header
              /\ \A i \in DOMAIN csv[f] : i > 1 => csv[f][i] \in SeqRange(results)
              /\ InSweepOrder(csv[f])
        /\ \A i \in DOMAIN results :
              Cardinality(PlacesOf(csv, results[i].orig, results[i].k)) = 1
====
